---- MODULE Spec2Model ----
(***************************************************************************)
(* Session supervision and event fan-out of tether (agent/tether).         *)
(* One session is followed through its whole life inside one server        *)
(* process: the session store (sequence counter, subscriber queues, event  *)
(* log with one rotated generation), the HTTP handlers, the maintenance    *)
(* loop with pruning and idle eviction, deletion and the working           *)
(* directory, the runner task and the permission protocol; further the     *)
(* callback sink as any runner may drive it, session names, the output     *)
(* de-duplication ring, and the bridge subscriber next to an SSE client.   *)
(* Around the session: the external-agent API (REST and WebSocket), the    *)
(* bearer token in front of the handlers, the Telegram bridge's approval   *)
(* timers, the names the bridges give topics and threads, the input handed *)
(* to the local runner, the store constructed again after a restart, and   *)
(* the requests the MCP tools send.                                        *)
(*                                                                         *)
(* The server is one asyncio event loop: a handler runs without            *)
(* interleaving up to its next await that really suspends.  Every action   *)
(* below is one such uninterrupted stretch of code.                        *)
(***************************************************************************)
EXTENDS Integers, Sequences, FiniteSets, TLC

\* ---------------------------------------------------------------- bounds
MaxSeq == 4              \* events emitted in one run of the model
EventBytes == 3000000    \* size of one serialized event line, in bytes
MaxSubscribers == 2      \* subscriber queues created in one run
MaxRequests == 1         \* permission requests issued in one run
MaxReads == 2            \* distinct since_seq values beyond 0 that readers ask for
MaxTime == 2             \* ticks of the clock in one run
MaxAccepted == 12        \* output texts let through by should_emit_output in one run
MaxBridgeEvents == 2     \* events emitted while a bridge may be subscribed
MaxFailures == 1         \* bridge calls of one consumer task that raise
MaxToolCalls == 2        \* calls of MCP tools in one run

\* ------------------------------------------------------ program constants
max_bytes == 5000000

\* deque(maxlen=10): the texts should_emit_output remembers
recent_limit == 10

\* ended_at=None: no timestamp
NoTime == -1

CREATED == "CREATED"
RUNNING == "RUNNING"
AWAITING_INPUT == "AWAITING_INPUT"
INTERRUPTING == "INTERRUPTING"
STOPPING == "STOPPING"
STOPPED == "STOPPED"
ERROR == "ERROR"

SessionState == {CREATED, RUNNING, AWAITING_INPUT, INTERRUPTING, STOPPING, STOPPED, ERROR}

Terminal == {STOPPED, ERROR}

Queues == 1..MaxSubscribers
RequestIds == 1..MaxRequests
Clients == {"c1", "c2"}

VARIABLES
    state,            \* session.state
    _seq,             \* store._seq[session_id]
    _subscribers,     \* store._subscribers[session_id]: the registered queues, in order
    queues,           \* queue -> the events put into it, oldest first
    created_queues,   \* number of queues created so far
    log,              \* sessions/<id>/events.jsonl, one event per line
    rotated,          \* sessions/<id>/events.jsonl.1
    emitted,          \* every event handed to store.emit, in call order
    entered,          \* every state the session has been moved into, in order
    _tasks,           \* the runner's query task of the session
    _stop_requested,  \* store._stop_requested[session_id]
    runner_starts,    \* number of runner.start calls
    pending,          \* request_id -> the pending permission and its future
    requested,        \* number of permission requests issued so far
    stop_pc,          \* client -> where its stop request stands
    maint_pc,         \* where the maintenance loop stands
    ws_connected,     \* whether the external agent's WebSocket is open
    response,         \* the last HTTP response sent
    replay,           \* the last read_event_log call: its argument, the two log
                      \* files as they were, and what it returned
    _sessions,        \* whether session_id is a key of store._sessions
    directory,        \* session.directory, "" when there is none
    workdir_managed,  \* session.workdir_managed
    disk,             \* the directories that exist on disk
    clock,            \* the wall clock, in ticks
    created_at,       \* session.created_at
    last_activity_at, \* session.last_activity_at
    ended_at,         \* session.ended_at
    name,             \* session.name, a text
    runner_session_id, \* session.runner_session_id, "" when there is none
    runner_header,    \* session.runner_header, "" when there is none
    _recent_output,   \* store._recent_output[session_id], oldest first
    called,           \* the last call a runner made on the callback sink
    accepted,         \* the normalized texts should_emit_output has let through
    consumer,         \* BridgeSubscriber._tasks[session_id]: the task, the platform it
                      \* serves, its queue, the events it has taken and the bridge
                      \* calls it has made
    sse,              \* the sse_stream generator of one client and its queue
    session_platform, \* session.platform, "" when there is none
    platform_thread_id, \* session.platform_thread_id, "" when there is none
    bridge_calls,     \* the calls the bridge manager has routed to the bridge
    _allow_all_until, \* TelegramBridge._allow_all_until: session -> expiry, 0 when unset
    _allow_tool_until, \* TelegramBridge._allow_tool_until: session -> tool -> expiry
    set_at,           \* session -> timer -> when its button was last pressed
    approval_log,     \* the last on_approval_request call of the bridge, its time and
                      \* its outcome
    _mappings,        \* the Telegram state manager: session -> name of its topic
    thread_names,     \* session -> the name its Discord thread was created with
    handed,           \* the texts handed to the runner's send_input
    prompts_sent,     \* the prompts of the queries the runner has started
    mcp_calls         \* the requests execute_tool has sent, in order

vars == <<state, _seq, _subscribers, queues, created_queues, log, rotated, emitted,
          entered, _tasks, _stop_requested, runner_starts, pending, requested,
          stop_pc, maint_pc, ws_connected, response, replay, _sessions, directory,
          workdir_managed, disk, clock, created_at, last_activity_at, ended_at,
          name, runner_session_id, runner_header, _recent_output, called, accepted,
          consumer, sse, session_platform, platform_thread_id,
          bridge_calls, _allow_all_until, _allow_tool_until, set_at, approval_log,
          _mappings, thread_names, handed, prompts_sent, mcp_calls>>

\* --------------------------------------------------------------- helpers
Range(s) == {s[i] : i \in 1..Len(s)}

RECURSIVE SelectInOrder(_, _)
\* the elements of s that are in keep, in the order of s
SelectInOrder(s, keep) ==
    IF s = <<>> THEN <<>>
    ELSE IF Head(s) \in keep
         THEN <<Head(s)>> \o SelectInOrder(Tail(s), keep)
         ELSE SelectInOrder(Tail(s), keep)

\* ------------------------------------------------------------- the store
\* The store's per-session data as one value, so that a handler that emits
\* several events in a row can thread it through.
Store == [_seq |-> _seq, queues |-> queues, log |-> log, rotated |-> rotated,
          emitted |-> emitted]

SetStore(st) ==
    /\ st._seq <= MaxSeq
    /\ _seq' = st._seq
    /\ queues' = st.queues
    /\ log' = st.log
    /\ rotated' = st.rotated
    /\ emitted' = st.emitted

\* next_seq that returns the advanced value without storing it
next_seq_not_stored(current) == [_seq |-> current, returned |-> current + 1]

\* SessionStore.next_seq: the counter advanced, and the value returned
next_seq(current) == [_seq |-> current + 1, returned |-> current + 1]

FileSize(file) == Len(file) * EventBytes

\* SessionStore._append_event_log
_append_event_log(st, event) ==
    IF max_bytes > 0 /\ st.log # <<>> /\ FileSize(st.log) > max_bytes
    THEN [st EXCEPT !.rotated = st.log, !.log = <<event>>]
    ELSE [st EXCEPT !.log = Append(st.log, event)]

\* emit that puts the event at the head of every registered queue
emit_at_head(st, event) ==
    LET delivered == [q \in DOMAIN st.queues |->
                        IF q \in Range(_subscribers)
                        THEN <<event>> \o st.queues[q]
                        ELSE st.queues[q]]
        put == [st EXCEPT !.queues = delivered, !.emitted = Append(st.emitted, event)]
    IN _append_event_log(put, event)

\* SessionStore.emit: put the event on every registered queue, then log it
emit(st, event) ==
    LET delivered == [q \in DOMAIN st.queues |->
                        IF q \in Range(_subscribers)
                        THEN Append(st.queues[q], event)
                        ELSE st.queues[q]]
        put == [st EXCEPT !.queues = delivered, !.emitted = Append(st.emitted, event)]
    IN _append_event_log(put, event)

\* the call store.emit(sid, {"seq": store.next_seq(sid), "type": ..., "data": ...}):
\* the dict is built (next_seq runs) and emit runs with no suspension between
emit_event(st, type, data) ==
    LET n == next_seq(st._seq)
        event == [seq |-> n.returned, type |-> type, data |-> data]
    IN emit([st EXCEPT !._seq = n._seq], event)

\* SessionStore.read_event_log, the loop over the lines of events.jsonl.
\* limit = 0 stands for limit=None (the code tests "if limit and ...").
RECURSIVE read_lines(_, _, _, _)
read_lines(lines, since_seq, limit, events) ==
    IF lines = <<>> THEN events
    ELSE LET event == Head(lines)
             seq == event.seq
         IN IF seq # 0 /\ seq <= since_seq
            THEN read_lines(Tail(lines), since_seq, limit, events)
            ELSE LET appended == Append(events, event)
                 IN IF limit # 0 /\ Len(appended) >= limit
                    THEN appended
                    ELSE read_lines(Tail(lines), since_seq, limit, appended)

read_event_log(lines, since_seq, limit) == read_lines(lines, since_seq, limit, <<>>)

\* ----------------------------------------------------- the state machine
\* tether.api.state: the permitted transitions
ValidTransitions ==
    {<<CREATED, RUNNING>>,
     <<RUNNING, AWAITING_INPUT>>, <<AWAITING_INPUT, RUNNING>>,
     <<RUNNING, INTERRUPTING>>, <<INTERRUPTING, STOPPED>>,
     <<RUNNING, STOPPING>>, <<STOPPING, STOPPED>>}
    \cup {<<s, ERROR>> : s \in SessionState \ Terminal}

\* tether.api.state.transition accepts the move from current to new_state
transition_allowed(current, new_state) == <<current, new_state>> \in ValidTransitions

\* The session and the store as a handler sees them while it runs: the stored
\* state, the states entered so far, the store, and whether a call has raised.
Ctx == [state |-> state, entered |-> entered, last_activity_at |-> last_activity_at,
        ended_at |-> ended_at, store |-> Store, raised |-> FALSE]

SetCtx(ctx) ==
    /\ state' = ctx.state
    /\ entered' = ctx.entered
    /\ last_activity_at' = ctx.last_activity_at
    /\ ended_at' = ctx.ended_at
    /\ SetStore(ctx.store)

\* tether.api.state.now(): the clock read when a timestamp is written
now == clock

\* "refresh activity": session.last_activity_at = now()
refresh_activity(ctx) == [ctx EXCEPT !.last_activity_at = now]

\* tether.api.state.transition(session, new_state): a move the table does not
\* permit raises and leaves the session as it was
transition(ctx, new_state) ==
    IF transition_allowed(ctx.state, new_state)
    THEN [ctx EXCEPT !.state = new_state,
                     !.entered = Append(ctx.entered, new_state),
                     !.ended_at = IF new_state \in Terminal THEN now ELSE @,
                     !.last_activity_at = IF new_state \in Terminal THEN @ ELSE now]
    ELSE [ctx EXCEPT !.raised = TRUE]

\* tether.api.emit.emit_state(session): one session_state event carrying the
\* state stored at the time of the call
emit_state(ctx) ==
    [ctx EXCEPT !.store = emit_event(ctx.store, "session_state", ctx.state)]

\* store.emit of an event that is not a session_state event
emit_other(ctx, type, data) ==
    [ctx EXCEPT !.store = emit_event(ctx.store, type, data)]

\* a caller that assigns session.state itself instead of calling transition
move_by_assignment(ctx, new_state) ==
    emit_state([ctx EXCEPT !.state = new_state,
                           !.entered = Append(ctx.entered, new_state)])

\* "transition(session, X)" then "await emit_state(session)", as every caller
\* writes it; a raise in transition skips the emit
move(ctx, new_state) ==
    LET t == transition(ctx, new_state)
    IN IF t.raised THEN t ELSE emit_state(t)

storeVars == <<_seq, queues, log, rotated, emitted>>
sessionVars == <<state, entered, last_activity_at, ended_at>>
workdirVars == <<directory, workdir_managed, disk>>
registryVars == <<_sessions, directory, workdir_managed, disk, clock, created_at>>
subscriberVars == <<_subscribers, created_queues>>
runnerVars == <<_tasks, _stop_requested, runner_starts>>
permissionVars == <<pending, requested>>
pcVars == <<stop_pc, maint_pc>>
recordVars == <<name, runner_session_id, runner_header, _recent_output>>
sinkVars == <<called, accepted, consumer, sse>>
agentVars == <<session_platform, platform_thread_id, bridge_calls>>
telegramVars == <<_allow_all_until, _allow_tool_until, set_at, approval_log>>
threadVars == <<_mappings, thread_names>>
inputVars == <<handed, prompts_sent>>
outerVars == <<telegramVars, threadVars, inputVars, mcp_calls>>

NoResult == [allowed |-> FALSE, reason |-> "unset"]

\* A text is the sequence of its characters.
\* the name SessionStore.create_session gives a session: "New session"
NewSessionName == <<"N", "e", "w", " ", "s", "e", "s", "s", "i", "o", "n">>

\* the length a name is cut to: cleaned[:80]
name_limit == 80

\* prompts and inputs: none, two short ones, and one longer than a name may be
ShortPrompt == <<"a", "b">>
OtherPrompt == <<"b">>
LongPrompt == [i \in 1..(name_limit + 1) |-> "a"]
Prompts == {<<>>, ShortPrompt, OtherPrompt, LongPrompt}

\* session.runner_session_id when the runner has assigned none
NoRunnerSessionId == ""

\* the record of a callback sink on which nothing has been called
NoCall == [op |-> "none"]

\* the ids of the sessions the chat bridges and the MCP tools deal with:
\* "sess_" and twelve hexadecimal digits
SessionId(head, tail) == <<"s","e","s","s","_">> \o head \o tail
SessionIds ==
    {SessionId(<<"0","0","0","0","0","0">>, <<"a","b","c","d","e","f">>),
     SessionId(<<"1","1","1","1","1","1">>, <<"a","b","c","d","e","f">>),
     SessionId(<<"0","0","0","0","0","0">>, <<"1","2","3","4","5","6">>)}

\* the tools a permission request may be about
Tools == {"Bash", "Write"}

\* the timers of a session: the Allow-All timer and one per tool
AllTools == "*"
Timers == {AllTools} \cup Tools

\* no approval request has reached the bridge yet
NoApproval == [session_id |-> <<>>, title |-> "", at |-> NoTime, outcome |-> "none"]

\* the directory a session is created with, and the one mkdtemp makes for it
GivenDirectory == "/given"
TempDirectory == "/tmp/tether_sess"

\* create_session: the session as SessionStore.create_session registers it,
\* with the directory the request names ("" when it names none)
create_session(given) ==
    /\ _sessions = TRUE
    /\ state = CREATED
    /\ directory = given
    /\ workdir_managed = FALSE
    /\ disk = IF given = "" THEN {} ELSE {given}
    /\ clock = 0
    /\ created_at = 0
    /\ last_activity_at = 0
    /\ ended_at = NoTime
    /\ name = NewSessionName
    /\ runner_session_id = NoRunnerSessionId
    /\ runner_header = ""

\* the store, the runner and the handlers next to a session just created
store_created ==
    /\ _seq = 0
    /\ _subscribers = <<>>
    /\ queues = [q \in Queues |-> <<>>]
    /\ created_queues = 0
    /\ log = <<>>
    /\ rotated = <<>>
    /\ emitted = <<>>
    /\ entered = <<>>
    /\ _tasks = "none"
    /\ _stop_requested = FALSE
    /\ runner_starts = 0
    /\ pending = [r \in RequestIds |->
                    [registered |-> FALSE, done |-> FALSE, result |-> NoResult,
                     accepted |-> 0]]
    /\ requested = 0
    /\ stop_pc = [c \in Clients |-> "idle"]
    /\ maint_pc = "idle"
    /\ ws_connected = TRUE
    /\ response = [op |-> "none", code |-> 0]
    /\ replay = [since_seq |-> 0, rotated |-> <<>>, lines |-> <<>>, events |-> <<>>]
    /\ _recent_output = <<>>
    /\ called = NoCall
    /\ accepted = <<>>
    /\ consumer = [task |-> "none", platform |-> "", queue |-> 0, taken |-> 0,
                   calls |-> <<>>]
    /\ sse = [task |-> "none", queue |-> 0]
    /\ session_platform = ""
    /\ platform_thread_id = ""
    /\ bridge_calls = <<>>
    /\ _allow_all_until = [s \in SessionIds |-> 0]
    /\ _allow_tool_until = [s \in SessionIds |-> [t \in Tools |-> 0]]
    /\ set_at = [s \in SessionIds |-> [t \in Timers |-> NoTime]]
    /\ approval_log = NoApproval
    /\ _mappings = [s \in SessionIds |-> <<>>]
    /\ thread_names = [s \in SessionIds |-> <<>>]
    /\ handed = {}
    /\ prompts_sent = {}
    /\ mcp_calls = <<>>

\* a session created without a directory
Init == store_created /\ create_session("")

\* ------------------------------------------------------------ the runner
\* an entry of ClaudeLocalRunner._tasks that is not done()
TaskActive(task) == task \in {"running", "cancelling", "heartbeat", "signal"}

\* task.cancel(): CancelledError is thrown into a task that waits for the next
\* message of the query
cancel(task) == IF task = "running" THEN "cancelling" ELSE task

\* on_error that records the failure and leaves the session where it is
on_error_record_only(ctx) ==
    IF ~_sessions THEN ctx ELSE emit_other(ctx, "error", "")

\* ApiRunnerEvents.on_error: the failure is recorded and the session moved
\* to ERROR; nothing is moved when the table does not permit it
on_error(ctx) ==
    LET recorded == emit_other(ctx, "error", "")
        moved == move(recorded, ERROR)
    IN IF ~_sessions THEN ctx
       ELSE IF moved.raised THEN recorded ELSE moved

\* an exit code is <<>> when the runner knows none, else <<code>>
ExitCodes == {<<>>, <<0>>, <<1>>}

\* on_exit that moves the session to ERROR whatever state it is in
on_exit_any_state(ctx, exit_code) ==
    IF ~_sessions \/ exit_code \in {<<>>, <<0>>} THEN ctx
    ELSE LET moved == move(ctx, ERROR)
         IN IF moved.raised THEN ctx ELSE moved

\* ApiRunnerEvents.on_exit
on_exit(ctx, exit_code) ==
    IF ~_sessions \/ exit_code \in {<<>>, <<0>>} THEN ctx
    ELSE IF ctx.state \in {AWAITING_INPUT, INTERRUPTING} THEN ctx
    ELSE LET moved == move(ctx, ERROR)
         IN IF moved.raised THEN ctx ELSE moved

\* on_awaiting_input that marks the session as waiting whatever state it is in
on_awaiting_input_any_state(ctx) ==
    IF _sessions THEN move_by_assignment(ctx, AWAITING_INPUT) ELSE ctx

\* ApiRunnerEvents.on_awaiting_input
on_awaiting_input(ctx) ==
    IF _sessions /\ ctx.state = RUNNING THEN move(ctx, AWAITING_INPUT) ELSE ctx

\* ApiRunnerEvents.on_heartbeat
on_heartbeat(ctx) ==
    IF ~_sessions THEN ctx ELSE emit_other(refresh_activity(ctx), "heartbeat", "")

\* ApiRunnerEvents.on_output, for text that is not a header and that
\* should_emit_output lets through
on_output(ctx) ==
    IF ~_sessions THEN ctx ELSE emit_other(refresh_activity(ctx), "output", "")

\* --------------------------------------------------------- session API
ApprovalChoices == {1, 2, 3}

\* maybe_set_session_name that names the session after every non-empty prompt
maybe_set_session_name_always(current, prompt) ==
    IF prompt = <<>> THEN current
    ELSE SubSeq(prompt, 1, IF Len(prompt) < name_limit THEN Len(prompt) ELSE name_limit)

\* tether.api.state.maybe_set_session_name(session, prompt): a session that
\* still carries the name it was created with is named after the first
\* name_limit characters of a non-empty prompt
maybe_set_session_name(current, prompt) ==
    IF current # NewSessionName \/ prompt = <<>> THEN current
    ELSE SubSeq(prompt, 1, IF Len(prompt) < name_limit THEN Len(prompt) ELSE name_limit)

\* SessionStore.clear_runner_session_id, which start_session calls under its
\* earlier name clear_codex_session_id
clear_runner_session_id == runner_session_id' = NoRunnerSessionId

\* "if not session: raise_http_error("NOT_FOUND", ...)"
not_found(op) ==
    /\ response' = [op |-> op, code |-> 404]
    /\ UNCHANGED <<sessionVars, storeVars, subscriberVars, runnerVars,
                   permissionVars, pcVars, ws_connected, recordVars, sinkVars, agentVars,
                   outerVars, replay, registryVars>>

\* "store.get_workdir(session_id) or store.create_workdir(session_id)"
get_or_create_workdir ==
    IF directory # ""
    THEN UNCHANGED workdirVars
    ELSE /\ directory' = TempDirectory
         /\ workdir_managed' = TRUE
         /\ disk' = disk \cup {TempDirectory}

\* start_session that hands the prompt to the runner before it looks at the
\* session's state
start_session_runner_first(approval_choice, prompt) ==
    /\ _stop_requested' = FALSE
    /\ _tasks' = "running"
    /\ runner_starts' = runner_starts + 1
    /\ IF state # CREATED
       THEN /\ response' = [op |-> "start", code |-> 409]
            /\ UNCHANGED <<sessionVars, storeVars, recordVars>>
       ELSE /\ SetCtx(move(Ctx, RUNNING))
            /\ clear_runner_session_id
            /\ name' = maybe_set_session_name(name, prompt)
            /\ UNCHANGED <<runner_header, _recent_output>>
            /\ response' = [op |-> "start",
                            code |-> IF approval_choice \in {1, 2} THEN 200 ELSE 422]
    /\ UNCHANGED <<subscriberVars, permissionVars, pcVars, ws_connected, sinkVars,
                   agentVars, outerVars, replay,
                   registryVars>>

\* POST /sessions/{id}/start
start_session(approval_choice, prompt) ==
    IF ~_sessions
    THEN not_found("start")
    ELSE IF state # CREATED
    THEN /\ response' = [op |-> "start", code |-> 409]
         /\ UNCHANGED <<sessionVars, storeVars, subscriberVars, runnerVars,
                        permissionVars, pcVars, ws_connected, recordVars, sinkVars,
                        agentVars, outerVars, replay, registryVars>>
    ELSE LET moved == move(Ctx, RUNNING)
         IN /\ SetCtx(moved)
            /\ IF moved.raised
               THEN /\ response' = [op |-> "start", code |-> 409]
                    /\ UNCHANGED <<runnerVars, workdirVars, recordVars>>
               ELSE /\ clear_runner_session_id
                    /\ name' = maybe_set_session_name(name, prompt)
                    /\ UNCHANGED <<runner_header, _recent_output>>
                    /\ IF approval_choice \notin {1, 2}
                       THEN /\ get_or_create_workdir
                            /\ response' = [op |-> "start", code |-> 422]
                            /\ UNCHANGED runnerVars
                       ELSE \* runner.start: clear_stop_requested, create the query task
                            /\ get_or_create_workdir
                            /\ _stop_requested' = FALSE
                            /\ _tasks' = "running"
                            /\ runner_starts' = runner_starts + 1
                            /\ response' = [op |-> "start", code |-> 200]
            /\ UNCHANGED <<subscriberVars, permissionVars, pcVars, ws_connected,
                           sinkVars, agentVars, outerVars, replay,
                           _sessions, clock, created_at>>

\* send_input that hands the text to the runner whatever the session's state
send_input_any_state(text) ==
    /\ response' = [op |-> "input", code |-> IF _sessions THEN 200 ELSE 404]
    /\ IF ~_sessions \/ TaskActive(_tasks)
       THEN UNCHANGED runnerVars
       ELSE /\ _stop_requested' = FALSE
            /\ _tasks' = "running"
            /\ UNCHANGED runner_starts
    /\ last_activity_at' = IF _sessions THEN now ELSE last_activity_at
    /\ name' = IF _sessions THEN maybe_set_session_name(name, text) ELSE name
    /\ UNCHANGED <<state, entered, ended_at, storeVars, subscriberVars, permissionVars,
                   pcVars, ws_connected, runner_session_id, runner_header,
                   _recent_output, sinkVars, agentVars, outerVars,
                   replay, registryVars>>

\* POST /sessions/{id}/input with a non-empty text
send_input(text) ==
    IF ~_sessions
    THEN not_found("input")
    ELSE IF state # RUNNING
    THEN /\ response' = [op |-> "input", code |-> 409]
         /\ UNCHANGED <<sessionVars, storeVars, subscriberVars, runnerVars,
                        permissionVars, pcVars, ws_connected, recordVars, sinkVars,
                        agentVars, outerVars, replay, registryVars>>
    ELSE /\ response' = [op |-> "input", code |-> 200]
         \* runner.send_input: ignored while a query runs, else a follow-up query
         /\ IF TaskActive(_tasks)
            THEN UNCHANGED runnerVars
            ELSE /\ _stop_requested' = FALSE
                 /\ _tasks' = "running"
                 /\ UNCHANGED runner_starts
         /\ last_activity_at' = now
         /\ name' = maybe_set_session_name(name, text)
         /\ UNCHANGED <<state, entered, ended_at, storeVars, subscriberVars, permissionVars,
                        pcVars, ws_connected, runner_session_id, runner_header,
                        _recent_output, sinkVars, agentVars, outerVars,
                        replay, registryVars>>

\* stop_session that marks the session object it fetched before runner.stop as
\* STOPPED and stores it, whatever has happened to the session in the meantime
stop_finalize_stale(ctx) ==
    [ctx EXCEPT !.state = STOPPED, !.entered = Append(ctx.entered, STOPPED)]

\* stop_session after runner.stop has returned: lines 198-208
stop_finalize(ctx) ==
    IF ctx.state \notin Terminal THEN move(ctx, STOPPED) ELSE ctx

\* stop_session without the early return for a terminal session
stop_session_no_early_return(c) ==
    /\ stop_pc[c] = "idle"
    /\ IF ~_sessions
       THEN /\ response' = [op |-> "stop", code |-> 404]
            /\ UNCHANGED <<sessionVars, storeVars, runnerVars, pcVars>>
       ELSE IF state = CREATED
       THEN /\ response' = [op |-> "stop", code |-> 409]
            /\ UNCHANGED <<sessionVars, storeVars, runnerVars, pcVars>>
       ELSE LET stopping == IF state = RUNNING THEN move(Ctx, STOPPING) ELSE Ctx
            IN IF TaskActive(_tasks)
               THEN /\ SetCtx(stopping)
                    /\ _stop_requested' = TRUE
                    /\ _tasks' = cancel(_tasks)
                    /\ stop_pc' = [stop_pc EXCEPT ![c] = "waiting"]
                    /\ UNCHANGED <<runner_starts, maint_pc, response>>
               ELSE LET final == stop_finalize(stopping)
                    IN /\ SetCtx(final)
                       /\ _tasks' = "none"
                       /\ _stop_requested' = FALSE
                       /\ response' = [op |-> "stop", code |-> 200]
                       /\ UNCHANGED <<runner_starts, pcVars>>
    /\ UNCHANGED <<subscriberVars, permissionVars, ws_connected, recordVars, sinkVars,
                   agentVars, outerVars, replay, registryVars>>

\* POST /sessions/{id}/stop, up to the point where runner.stop waits for the
\* query task; when there is no task to wait for, to the end of the handler
stop_session(c) ==
    /\ stop_pc[c] = "idle"
    /\ IF ~_sessions
       THEN /\ response' = [op |-> "stop", code |-> 404]
            /\ UNCHANGED <<sessionVars, storeVars, runnerVars, pcVars>>
       ELSE IF state \in Terminal
       THEN /\ response' = [op |-> "stop", code |-> 200]
            /\ UNCHANGED <<sessionVars, storeVars, runnerVars, pcVars>>
       ELSE IF state = CREATED
       THEN /\ response' = [op |-> "stop", code |-> 409]
            /\ UNCHANGED <<sessionVars, storeVars, runnerVars, pcVars>>
       ELSE LET stopping == IF state = RUNNING THEN move(Ctx, STOPPING) ELSE Ctx
            IN IF stopping.raised
               THEN /\ response' = [op |-> "stop", code |-> 409]
                    /\ UNCHANGED <<sessionVars, storeVars, runnerVars, pcVars>>
               ELSE IF TaskActive(_tasks)
               THEN \* runner.stop: request_stop, task.cancel(), wait_for(task)
                    /\ SetCtx(stopping)
                    /\ _stop_requested' = TRUE
                    /\ _tasks' = cancel(_tasks)
                    /\ stop_pc' = [stop_pc EXCEPT ![c] = "waiting"]
                    /\ UNCHANGED <<runner_starts, maint_pc, response>>
               ELSE \* runner.stop returns at once: pop the task, clear the request
                    LET final == stop_finalize(stopping)
                    IN /\ SetCtx(final)
                       /\ _tasks' = "none"
                       /\ _stop_requested' = FALSE
                       /\ response' = [op |-> "stop",
                                       code |-> IF final.raised THEN 409 ELSE 200]
                       /\ UNCHANGED <<runner_starts, pcVars>>
    /\ UNCHANGED <<subscriberVars, permissionVars, ws_connected, recordVars, sinkVars,
                   agentVars, outerVars, replay, registryVars>>

\* stop_session from the return of wait_for(task) to the end of the handler
stop_session_resume(c) ==
    /\ stop_pc[c] = "waiting"
    /\ ~TaskActive(_tasks)
    /\ IF ~_sessions
       THEN /\ response' = [op |-> "stop", code |-> 404]
            /\ UNCHANGED <<sessionVars, storeVars>>
       ELSE LET final == stop_finalize(Ctx)
            IN /\ SetCtx(final)
               /\ response' = [op |-> "stop", code |-> IF final.raised THEN 409 ELSE 200]
    /\ _tasks' = "none"
    /\ _stop_requested' = FALSE
    /\ stop_pc' = [stop_pc EXCEPT ![c] = "idle"]
    /\ UNCHANGED <<runner_starts, maint_pc, subscriberVars, permissionVars,
                   ws_connected, recordVars, sinkVars, agentVars, outerVars, replay, registryVars>>

\* ---------------------------------------------------------- maintenance
\* maintenance_loop, the idle branch for a RUNNING session whose last activity
\* is older than the threshold, up to the point where runner.stop waits
maintenance_loop ==
    /\ maint_pc = "idle"
    /\ _sessions
    /\ state = RUNNING
    /\ LET stopping == move(Ctx, STOPPING)
       IN IF stopping.raised
          THEN UNCHANGED <<sessionVars, storeVars, runnerVars, pcVars>>
          ELSE IF TaskActive(_tasks)
          THEN /\ SetCtx(stopping)
               /\ _stop_requested' = TRUE
               /\ _tasks' = cancel(_tasks)
               /\ maint_pc' = "waiting"
               /\ UNCHANGED <<runner_starts, stop_pc>>
          ELSE /\ SetCtx(move(stopping, STOPPED))
               /\ _tasks' = "none"
               /\ _stop_requested' = FALSE
               /\ UNCHANGED <<runner_starts, pcVars>>
    /\ UNCHANGED <<subscriberVars, permissionVars, ws_connected, recordVars, sinkVars,
                   agentVars, outerVars, response, replay, registryVars>>

\* maintenance_loop that finalizes the session without emit_state
maintenance_resume_silent ==
    /\ maint_pc = "waiting"
    /\ ~TaskActive(_tasks)
    /\ SetCtx(transition(Ctx, STOPPED))
    /\ _tasks' = "none"
    /\ _stop_requested' = FALSE
    /\ maint_pc' = "idle"
    /\ UNCHANGED <<runner_starts, stop_pc, subscriberVars, permissionVars,
                   ws_connected, recordVars, sinkVars, agentVars, outerVars, response,
                   replay, registryVars>>

\* maintenance_loop from the return of runner.stop: lines 50-51.  A raise is
\* caught by the loop's "except Exception".
maintenance_resume ==
    /\ maint_pc = "waiting"
    /\ ~TaskActive(_tasks)
    /\ SetCtx(move(Ctx, STOPPED))
    /\ _tasks' = "none"
    /\ _stop_requested' = FALSE
    /\ maint_pc' = "idle"
    /\ UNCHANGED <<runner_starts, stop_pc, subscriberVars, permissionVars,
                   ws_connected, recordVars, sinkVars, agentVars, outerVars, response,
                   replay, registryVars>>

\* ------------------------------------------------ the runner's query task
\* _run_query: a message of the query is handled (text block -> on_output)
runner_output ==
    /\ _tasks = "running"
    /\ ~_stop_requested
    /\ SetCtx(on_output(Ctx))
    /\ UNCHANGED <<runnerVars, subscriberVars, permissionVars, pcVars,
                   ws_connected, recordVars, sinkVars, agentVars, outerVars, response,
                   replay, registryVars>>

\* _run_query: a message reports an error (on_error, the loop goes on), or the
\* query raises (on_error, then the finally block).  A query that is being
\* cancelled can only raise: "except Exception" when what comes out of it is
\* not CancelledError.
runner_error(raised) ==
    /\ \/ _tasks = "running" /\ ~_stop_requested
       \/ _tasks = "cancelling" /\ raised
    /\ SetCtx(on_error(Ctx))
    /\ _tasks' = IF raised THEN "heartbeat" ELSE "running"
    /\ UNCHANGED <<_stop_requested, runner_starts, subscriberVars, permissionVars,
                   pcVars, ws_connected, recordVars, sinkVars, agentVars, outerVars,
                   response, replay, registryVars>>

\* _run_query: the query has no more messages, the loop breaks on a stop
\* request, or CancelledError is caught
runner_query_done ==
    /\ _tasks \in {"running", "cancelling"}
    /\ _tasks' = "heartbeat"
    /\ UNCHANGED <<sessionVars, storeVars, _stop_requested, runner_starts,
                   subscriberVars, permissionVars, pcVars, ws_connected, recordVars,
                   sinkVars, agentVars, outerVars, response,
                   replay, registryVars>>

\* _run_query, finally block: the final heartbeat
runner_final_heartbeat ==
    /\ _tasks = "heartbeat"
    /\ SetCtx(on_heartbeat(Ctx))
    /\ _tasks' = "signal"
    /\ UNCHANGED <<_stop_requested, runner_starts, subscriberVars, permissionVars,
                   pcVars, ws_connected, recordVars, sinkVars, agentVars, outerVars,
                   response, replay, registryVars>>

\* _run_query, finally block: signal completion, and the task is done
runner_signal ==
    /\ _tasks = "signal"
    /\ SetCtx(IF _stop_requested THEN on_exit(Ctx, <<0>>) ELSE on_awaiting_input(Ctx))
    /\ _tasks' = "done"
    /\ UNCHANGED <<_stop_requested, runner_starts, subscriberVars, permissionVars,
                   pcVars, ws_connected, recordVars, sinkVars, agentVars, outerVars,
                   response, replay, registryVars>>

\* runner.stop, wait_for(task, timeout=5.0) times out: the task is cancelled
\* inside its finally block and ends without finishing it; TimeoutError is
\* caught and stop goes on to return 0
wait_for_timeout ==
    /\ _tasks \in {"heartbeat", "signal"}
    /\ maint_pc = "waiting" \/ \E c \in Clients : stop_pc[c] = "waiting"
    /\ _tasks' = "timed_out"
    /\ UNCHANGED <<sessionVars, storeVars, _stop_requested, runner_starts,
                   subscriberVars, permissionVars, pcVars, ws_connected, recordVars,
                   sinkVars, agentVars, outerVars, response,
                   replay, registryVars>>

\* ------------------------------------------------- the permission protocol
\* SessionStore.add_pending_permission with a fresh future
add_pending_permission(p, request_id) ==
    [p EXCEPT ![request_id] = [registered |-> TRUE, done |-> FALSE,
                               result |-> NoResult, accepted |-> 0]]

\* SessionStore.resolve_pending_permission: the pending map afterwards and the
\* value returned.  `accepted` counts the calls that returned true.
resolve_pending_permission(p, request_id, result) ==
    IF p[request_id].registered /\ ~p[request_id].done
    THEN [pending |-> [p EXCEPT ![request_id].done = TRUE,
                                ![request_id].result = result,
                                ![request_id].accepted = @ + 1],
          success |-> TRUE]
    ELSE [pending |-> p, success |-> FALSE]

\* ApiRunnerEvents.on_permission_request, called by the runner inside a turn:
\* the event is emitted and the future registered; the runner then awaits it
runner_permission_request ==
    /\ _tasks = "running"
    /\ ~_stop_requested
    /\ requested < MaxRequests
    /\ SetCtx(emit_other(Ctx, "permission_request", ""))
    /\ requested' = requested + 1
    /\ pending' = add_pending_permission(pending, requested + 1)
    /\ UNCHANGED <<runnerVars, subscriberVars, pcVars, ws_connected, recordVars,
                   sinkVars, agentVars, outerVars, response, replay, registryVars>>

\* respond_to_approval that goes on to emit whatever resolve returned
respond_to_approval_unchecked(request_id, allow) ==
    LET resolved == resolve_pending_permission(
                        pending, request_id, [allowed |-> allow, reason |-> "user"])
    IN /\ pending' = resolved.pending
       /\ SetCtx(emit_other(Ctx, "approval_response", ""))
       /\ response' = [op |-> "respond", code |-> 200]
       /\ UNCHANGED <<requested, subscriberVars, runnerVars, pcVars,
                      ws_connected, recordVars, sinkVars, agentVars, outerVars, replay,
                      registryVars>>

\* POST /external/sessions/{id}/approvals/{request_id}/respond
respond_to_approval(request_id, allow) ==
    LET resolved == resolve_pending_permission(
                        pending, request_id, [allowed |-> allow, reason |-> "user"])
    IN IF ~_sessions \/ ~resolved.success
       THEN /\ response' = [op |-> "respond", code |-> 404]
            /\ UNCHANGED <<sessionVars, storeVars, subscriberVars, runnerVars,
                           permissionVars, pcVars, ws_connected, recordVars, sinkVars,
                           agentVars, outerVars, replay, registryVars>>
       ELSE /\ pending' = resolved.pending
            /\ SetCtx(emit_other(Ctx, "approval_response", ""))
            /\ response' = [op |-> "respond", code |-> 200]
            /\ UNCHANGED <<requested, subscriberVars, runnerVars, pcVars,
                           ws_connected, recordVars, sinkVars, agentVars, outerVars,
                           replay, registryVars>>

\* a timeout that lets the request through instead of denying it
permission_timeout_allows(request_id) ==
    LET resolved == resolve_pending_permission(
                        pending, request_id, [allowed |-> TRUE, reason |-> "timeout"])
    IN /\ pending[request_id].registered
       /\ ~pending[request_id].done
       /\ pending' = resolved.pending
       /\ UNCHANGED <<requested, sessionVars, storeVars, subscriberVars, runnerVars,
                      pcVars, ws_connected, recordVars, sinkVars, agentVars, outerVars,
                      response, replay, registryVars>>

\* the timeout of a pending permission elapses
permission_timeout(request_id) ==
    LET resolved == resolve_pending_permission(
                        pending, request_id, [allowed |-> FALSE, reason |-> "timeout"])
    IN /\ pending[request_id].registered
       /\ ~pending[request_id].done
       /\ pending' = resolved.pending
       /\ UNCHANGED <<requested, sessionVars, storeVars, subscriberVars, runnerVars,
                      pcVars, ws_connected, recordVars, sinkVars, agentVars, outerVars,
                      response, replay, registryVars>>

\* --------------------------------------------------- external agent, SSE
\* agent_websocket, "except WebSocketDisconnect": the disconnect notice
agent_websocket_disconnect ==
    /\ ws_connected
    /\ ws_connected' = FALSE
    /\ SetCtx(emit_other(Ctx, "agent_disconnected", ""))
    /\ UNCHANGED <<subscriberVars, runnerVars, permissionVars, pcVars, response,
                   replay, registryVars, recordVars, sinkVars, agentVars, outerVars>>

\* SessionStore.new_subscriber (sse_stream, BridgeSubscriber._consume)
new_subscriber ==
    /\ created_queues < MaxSubscribers
    /\ created_queues' = created_queues + 1
    /\ _subscribers' = Append(_subscribers, created_queues + 1)
    /\ UNCHANGED <<sessionVars, storeVars, runnerVars, permissionVars, pcVars,
                   ws_connected, recordVars, sinkVars, agentVars, outerVars, response,
                   replay, registryVars>>

\* SessionStore.remove_subscriber
remove_subscriber(queue) ==
    /\ queue \in Range(_subscribers)
    /\ _subscribers' = SelectInOrder(_subscribers, Range(_subscribers) \ {queue})
    /\ UNCHANGED <<created_queues, sessionVars, storeVars, runnerVars,
                   permissionVars, pcVars, ws_connected, recordVars, sinkVars, agentVars,
                   outerVars, response, replay, registryVars>>

\* GET /external/sessions/{id}/events?since_seq=n, the read of the log
get_pending_events(since_seq) ==
    /\ IF ~_sessions
       THEN /\ response' = [op |-> "events", code |-> 404]
            /\ UNCHANGED replay
       ELSE /\ replay' = [since_seq |-> since_seq, rotated |-> rotated, lines |-> log,
                          events |-> read_event_log(log, since_seq, 0)]
            /\ UNCHANGED response
    /\ UNCHANGED <<sessionVars, storeVars, subscriberVars, runnerVars,
                   permissionVars, pcVars, ws_connected, recordVars, sinkVars, agentVars,
                   outerVars, registryVars>>

\* ------------------------------------------- deletion, pruning, the clock
\* SessionStore.clear_workdir, called with force=True; registered tells whether
\* the lookup in store._sessions finds the session
clear_workdir(registered) ==
    IF ~registered
    THEN UNCHANGED workdirVars
    ELSE /\ disk' = IF directory # "" /\ workdir_managed THEN disk \ {directory} ELSE disk
         /\ directory' = ""
         /\ workdir_managed' = FALSE

\* SessionStore.delete_session for a registered session: the session is popped,
\* its database rows deleted, and the per-session runtime state cleared.  The
\* files under sessions/<id>/ are not touched.
SessionStore_delete_session ==
    /\ _sessions' = FALSE
    /\ _seq' = 0
    /\ _subscribers' = <<>>
    /\ clear_workdir(_sessions')
    /\ _stop_requested' = FALSE
    /\ _recent_output' = <<>>
    /\ UNCHANGED <<sessionVars, queues, log, rotated, emitted, created_queues, _tasks,
                   runner_starts, permissionVars, pcVars, ws_connected, name,
                   runner_session_id, runner_header, sinkVars, agentVars, outerVars,
                   replay, clock, created_at>>

\* delete_session that does not look at the session's state
delete_session_any_state ==
    IF ~_sessions
    THEN not_found("delete")
    ELSE /\ SessionStore_delete_session
         /\ response' = [op |-> "delete", code |-> 200]

\* DELETE /sessions/{id}
delete_session ==
    IF ~_sessions
    THEN not_found("delete")
    ELSE IF state \in {RUNNING, STOPPING}
    THEN /\ response' = [op |-> "delete", code |-> 409]
         /\ UNCHANGED <<sessionVars, storeVars, subscriberVars, runnerVars,
                        permissionVars, pcVars, ws_connected, recordVars, sinkVars,
                        agentVars, outerVars, replay, registryVars>>
    ELSE /\ SessionStore_delete_session
         /\ response' = [op |-> "delete", code |-> 200]

\* the retention and idle thresholds the environment may configure, in ticks
RetentionDays == {0, 1}
IdleTimeouts == {0, 1}

\* SessionStore.prune_sessions, the test it applies to the session: true when
\* the session is handed to delete_session
prune_selects(retention_days) ==
    /\ retention_days > 0
    /\ _sessions
    /\ state \notin {RUNNING, INTERRUPTING}
    /\ LET ts == IF ended_at # NoTime THEN ended_at
                 ELSE IF last_activity_at # NoTime THEN last_activity_at
                 ELSE created_at
           cutoff == now - retention_days
       IN ts # NoTime /\ ts < cutoff

\* SessionStore.prune_sessions
prune_sessions(retention_days) ==
    /\ prune_selects(retention_days)
    /\ SessionStore_delete_session
    /\ UNCHANGED response

\* maintenance_loop that evicts a RUNNING session whatever its last activity
maintenance_pass_no_idle_test(retention_days, idle_timeout_s) ==
    /\ maint_pc = "idle"
    /\ IF prune_selects(retention_days)
       THEN prune_sessions(retention_days)
       ELSE maintenance_loop

\* one pass of maintenance_loop up to its first suspension: prune, then the
\* idle test of lines 37-45, then the eviction
maintenance_pass(retention_days, idle_timeout_s) ==
    /\ maint_pc = "idle"
    /\ IF prune_selects(retention_days)
       THEN prune_sessions(retention_days)
       ELSE /\ idle_timeout_s > 0
            /\ now - last_activity_at > idle_timeout_s
            /\ maintenance_loop

\* time passes
tick ==
    /\ clock < MaxTime
    /\ clock' = clock + 1
    /\ UNCHANGED <<sessionVars, storeVars, subscriberVars, runnerVars, permissionVars,
                   pcVars, ws_connected, recordVars, sinkVars, agentVars, outerVars,
                   response, replay, _sessions, workdirVars,
                   created_at>>

\* ------------------------------------------ the callback sink, any runner
\* The RunnerEvents contract binds every runner adapter, so the callbacks are
\* also taken with the arguments and in the states the local runner never
\* produces: a session that SessionStore._load_sessions found in the database
\* in whatever state it was left, and a runner that may call at any time.
_load_sessions(loaded_state) ==
    /\ _sessions = TRUE
    /\ state = loaded_state
    /\ directory = ""
    /\ workdir_managed = FALSE
    /\ disk = {}
    /\ clock = 0
    /\ created_at = 0
    /\ last_activity_at = 0
    /\ ended_at = IF loaded_state \in Terminal THEN 0 ELSE NoTime
    /\ name = NewSessionName
    /\ runner_session_id = NoRunnerSessionId
    /\ runner_header = ""

\* what a callback leaves alone besides the session and the store
callbackFrame == <<subscriberVars, runnerVars, permissionVars, pcVars, ws_connected,
                   response, replay, registryVars, name, _recent_output, accepted,
                   consumer, sse, agentVars, outerVars>>

\* the runner calls events.on_exit(session_id, exit_code)
call_on_exit(exit_code) ==
    /\ SetCtx(on_exit(Ctx, exit_code))
    /\ called' = [op |-> "on_exit", exit_code |-> exit_code, before |-> state]
    /\ UNCHANGED <<callbackFrame, runner_session_id, runner_header>>

\* the runner calls events.on_error(session_id, code, message)
call_on_error ==
    /\ SetCtx(on_error(Ctx))
    /\ called' = [op |-> "on_error", before |-> state]
    /\ UNCHANGED <<callbackFrame, runner_session_id, runner_header>>

\* the runner calls events.on_awaiting_input(session_id)
call_on_awaiting_input ==
    /\ SetCtx(on_awaiting_input(Ctx))
    /\ called' = [op |-> "on_awaiting_input", before |-> state]
    /\ UNCHANGED <<callbackFrame, runner_session_id, runner_header>>

\* the thread ids a runner may report in its header: none, the literal
\* "unknown", and two ids
ThreadIds == {"", "unknown", "thread_abc123", "new_thread"}

\* SessionStore.set_runner_session_id: the id is stored for a registered session
set_runner_session_id(value) ==
    runner_session_id' = IF _sessions THEN value ELSE runner_session_id

\* on_header that captures every thread id that is not "unknown"
on_header_overwrites(current, thread_id) ==
    IF thread_id \notin {"", "unknown"} THEN thread_id ELSE current

\* ApiRunnerEvents.on_header, the runner session id it stores: thread_id is
\* captured only if no id is set and it is not the literal "unknown"
on_header(current, thread_id) ==
    IF current = NoRunnerSessionId /\ thread_id \notin {"", "unknown"}
    THEN thread_id
    ELSE current

\* the runner calls events.on_header(session_id, title=..., thread_id=...)
call_on_header(thread_id) ==
    /\ set_runner_session_id(on_header(runner_session_id, thread_id))
    /\ runner_header' = IF _sessions THEN "Claude Code 1.0.3" ELSE runner_header
    /\ called' = [op |-> "on_header", thread_id |-> thread_id, before |-> state]
    /\ UNCHANGED <<sessionVars, storeVars, callbackFrame>>

\* ------------------------------------------------- output de-duplication
\* The characters of an output text: ESC stands for the byte 0x1b.  Of the
\* classes of the pattern \x1b\[[0-9;?]*[ -/]*[@-~] the texts use these members.
ESC == "ESC"
ParameterBytes == {"1", ";", "?"}
IntermediateBytes == {" ", "/"}
FinalBytes == {"m", "K", "a", "["}
Whitespace == {" ", "\n", "\t"}

\* the longest prefix-free rest: text without its leading run of class members
RECURSIVE skip(_, _)
skip(text, class) ==
    IF text # <<>> /\ Head(text) \in class THEN skip(Tail(text), class) ELSE text

\* re.sub(r"\x1b\[[0-9;?]*[ -/]*[@-~]", "", text): the leftmost matches are
\* removed one after the other; the three classes are disjoint, so the greedy
\* match is the only one at a position
RECURSIVE strip_codes(_)
strip_codes(text) ==
    IF text = <<>> THEN <<>>
    ELSE IF Head(text) = ESC /\ Len(text) >= 2 /\ text[2] = "["
    THEN LET rest == skip(skip(Tail(Tail(text)), ParameterBytes), IntermediateBytes)
         IN IF rest # <<>> /\ Head(rest) \in FinalBytes
            THEN strip_codes(Tail(rest))
            ELSE <<Head(text)>> \o strip_codes(Tail(text))
    ELSE <<Head(text)>> \o strip_codes(Tail(text))

\* " ".join(stripped.strip().split()): the words of the text, one space apart
RECURSIVE join_words(_, _, _)
join_words(text, out, gap) ==
    IF text = <<>> THEN out
    ELSE IF Head(text) \in Whitespace THEN join_words(Tail(text), out, TRUE)
    ELSE join_words(Tail(text),
                    IF gap /\ out # <<>> THEN out \o <<" ", Head(text)>>
                    ELSE Append(out, Head(text)),
                    FALSE)

\* SessionStore._normalize_output
_normalize_output(text) == join_words(strip_codes(text), <<>>, FALSE)

\* deque.append on a deque with maxlen: a full deque drops its oldest entry
deque_append(history, entry) ==
    IF Len(history) >= recent_limit
    THEN Append(Tail(history), entry)
    ELSE Append(history, entry)

\* should_emit_output that never forgets a text it has let through
should_emit_output_unbounded(history, text) ==
    LET normalized == _normalize_output(text)
    IN IF normalized = <<>> \/ normalized \in Range(history)
       THEN [returned |-> FALSE, history |-> history]
       ELSE [returned |-> TRUE, history |-> Append(history, normalized)]

\* SessionStore.should_emit_output: what it returns and the history it leaves
should_emit_output(history, text) ==
    LET normalized == _normalize_output(text)
    IN IF normalized = <<>>
       THEN [returned |-> FALSE, history |-> history]
       ELSE IF normalized \in Range(history)
       THEN [returned |-> FALSE, history |-> history]
       ELSE [returned |-> TRUE, history |-> deque_append(history, normalized)]

\* The output lines of a runner: line k is k words "a"; it arrives plain, with
\* its blanks and line ends multiplied, or wrapped in colour codes.
Line(k) == [i \in 1..(2 * k - 1) |-> IF i % 2 = 1 THEN "a" ELSE " "]
Spaced(k) == <<" ", "\t">> \o [i \in 1..(3 * k - 2) |-> IF i % 3 = 1 THEN "a"
                                                      ELSE IF i % 3 = 2 THEN "\n" ELSE " "]
                         \o <<"\n">>
Coloured(k) == <<ESC, "[", "1", ";", "1", "m">> \o Line(k) \o <<ESC, "[", "K", ESC, "[",
                 "?", " ", "m">>
OutputTexts(k) == {Line(k), Spaced(k), Coloured(k)}

\* texts with nothing in them once normalized
EmptyTexts == {<<>>, <<" ", "\n">>, <<ESC, "[", "m">>, <<" ", ESC, "[", "1", "K", "\t">>}

\* a caller asks store.should_emit_output(session_id, text)
call_should_emit_output(text) ==
    LET asked == should_emit_output(_recent_output, text)
    IN /\ Len(accepted) < MaxAccepted
       /\ _recent_output' = asked.history
       /\ called' = [op |-> "should_emit_output", text |-> text,
                     returned |-> asked.returned]
       /\ accepted' = IF asked.returned
                      THEN Append(accepted, _normalize_output(text))
                      ELSE accepted
       /\ UNCHANGED <<sessionVars, storeVars, subscriberVars, runnerVars, permissionVars,
                      pcVars, ws_connected, response, replay, registryVars, name,
                      runner_session_id, runner_header, consumer, sse, agentVars, outerVars>>

\* ----------------------------------------------------------------- names
\* the names a rename request may carry: blank, and one with a run of blanks
RenameValues == {<<" ">>, <<"c", " ", " ", "d">>}

\* PATCH /sessions/{id}/rename
rename_session(value) ==
    LET cleaned == join_words(value, <<>>, FALSE)
    IN IF ~_sessions
       THEN not_found("rename")
       ELSE /\ IF cleaned = <<>>
               THEN /\ response' = [op |-> "rename", code |-> 422]
                    /\ UNCHANGED name
               ELSE /\ response' = [op |-> "rename", code |-> 200]
                    /\ name' = SubSeq(cleaned, 1, IF Len(cleaned) < name_limit
                                                  THEN Len(cleaned) ELSE name_limit)
            /\ UNCHANGED <<sessionVars, storeVars, subscriberVars, runnerVars,
                           permissionVars, pcVars, ws_connected, replay, registryVars,
                           runner_session_id, runner_header, _recent_output, sinkVars,
                           agentVars, outerVars>>

\* ------------------------------------------- bridges and their subscriber
\* The payload of an event as the subscriber reads it; a key that is absent
\* reads as "" or FALSE.
EventData(text, final, is_history, state_name, message) ==
    [text |-> text, final |-> final, is_history |-> is_history, state |-> state_name,
     message |-> message]

\* the events a session sends its subscribers
BridgeEvents ==
    {[type |-> "output", data |-> EventData("Hello world", TRUE, FALSE, "", "")],
     [type |-> "output", data |-> EventData("thinking step", FALSE, FALSE, "", "")],
     [type |-> "output", data |-> EventData("", TRUE, FALSE, "", "")],
     [type |-> "output", data |-> EventData("old history", TRUE, TRUE, "", "")],
     [type |-> "output_final", data |-> EventData("accumulated blob", FALSE, FALSE, "", "")],
     [type |-> "session_state", data |-> EventData("", FALSE, FALSE, RUNNING, "")],
     [type |-> "session_state", data |-> EventData("", FALSE, FALSE, AWAITING_INPUT, "")],
     [type |-> "session_state", data |-> EventData("", FALSE, FALSE, ERROR, "")],
     [type |-> "error", data |-> EventData("", FALSE, FALSE, "", "Process crashed")]}

\* the platforms a session may be bound to: one with a bridge registered in
\* the bridge manager, one without
Platforms == {"telegram", "nonexistent"}
get_bridge(platform) == platform = "telegram"

\* no bridge method is called for the event
NoBridgeCall == [method |-> "none", arg |-> ""]

\* state_map.get(state)
state_map(state_name) ==
    IF state_name = RUNNING THEN "executing"
    ELSE IF state_name = AWAITING_INPUT THEN "done"
    ELSE IF state_name = ERROR THEN "error"
    ELSE ""

\* BridgeSubscriber._consume, the body of its loop: the bridge call an event
\* is turned into
route(event) ==
    IF event.data.is_history THEN NoBridgeCall
    ELSE IF event.type \in {"output", "output_final"}
    THEN IF event.data.text # ""
         THEN [method |-> "on_output", arg |-> event.data.text]
         ELSE NoBridgeCall
    ELSE IF event.type = "permission_request"
    THEN [method |-> "on_approval_request", arg |-> event.data.text]
    ELSE IF event.type = "session_state"
    THEN IF state_map(event.data.state) # ""
         THEN [method |-> "on_status_change", arg |-> state_map(event.data.state)]
         ELSE NoBridgeCall
    ELSE IF event.type = "error"
    THEN [method |-> "on_status_change", arg |-> "error"]
    ELSE NoBridgeCall

\* the bridge calls of the consumer task that raised
Failures == {i \in 1..Len(consumer.calls) : consumer.calls[i].raised}

\* what a bridge or SSE step leaves alone besides the store and the subscribers
bridgeFrame == <<sessionVars, runnerVars, permissionVars, pcVars, ws_connected, response,
                 replay, registryVars, recordVars, called, accepted, agentVars, outerVars>>

\* an emitter calls store.emit with one of the events
store_emit(event) ==
    /\ _sessions
    /\ Len(emitted) < MaxBridgeEvents
    /\ SetStore(emit_event(Store, event.type, event.data))
    /\ UNCHANGED <<bridgeFrame, subscriberVars, consumer, sse>>

\* BridgeSubscriber.subscribe: a consumer task is created unless one is tracked
subscribe(platform) ==
    /\ consumer.task \in {"none", "cancelled"}
    /\ consumer' = [task |-> "created", platform |-> platform, queue |-> 0, taken |-> 0,
                    calls |-> <<>>]
    /\ UNCHANGED <<bridgeFrame, storeVars, subscriberVars, sse>>

\* _consume up to its first suspension: the queue is registered, and the task
\* returns when no bridge serves the platform
consume_start ==
    /\ consumer.task = "created"
    /\ created_queues < MaxSubscribers
    /\ created_queues' = created_queues + 1
    /\ _subscribers' = Append(_subscribers, created_queues + 1)
    /\ consumer' = [consumer EXCEPT !.queue = created_queues + 1,
                                    !.task = IF get_bridge(consumer.platform)
                                             THEN "consuming" ELSE "returned"]
    /\ UNCHANGED <<bridgeFrame, storeVars, sse>>

\* _consume that lets an exception of the bridge end the task
consume_event_until_raise(raises) ==
    /\ consumer.task = "consuming"
    /\ consumer.taken < Len(queues[consumer.queue])
    /\ LET event == queues[consumer.queue][consumer.taken + 1]
           call == route(event)
       IN /\ raises => (call # NoBridgeCall /\ Cardinality(Failures) < MaxFailures)
          /\ consumer' = [consumer EXCEPT
                 !.taken = @ + 1,
                 !.task = IF raises THEN "failed" ELSE @,
                 !.calls = IF call = NoBridgeCall THEN @
                           ELSE Append(@, [method |-> call.method, arg |-> call.arg,
                                           raised |-> raises])]
    /\ _subscribers' = IF raises
                       THEN SelectInOrder(_subscribers, Range(_subscribers) \ {consumer.queue})
                       ELSE _subscribers
    /\ UNCHANGED <<bridgeFrame, storeVars, created_queues, sse>>

\* _consume, one turn of its loop: the next event of the queue is taken and
\* routed; a bridge call that raises is logged and the loop goes on
consume_event(raises) ==
    /\ consumer.task = "consuming"
    /\ consumer.taken < Len(queues[consumer.queue])
    /\ LET event == queues[consumer.queue][consumer.taken + 1]
           call == route(event)
       IN /\ raises => (call # NoBridgeCall /\ Cardinality(Failures) < MaxFailures)
          /\ consumer' = [consumer EXCEPT
                 !.taken = @ + 1,
                 !.calls = IF call = NoBridgeCall THEN @
                           ELSE Append(@, [method |-> call.method, arg |-> call.arg,
                                           raised |-> raises])]
    /\ UNCHANGED <<bridgeFrame, storeVars, subscriberVars, sse>>

\* BridgeSubscriber.unsubscribe: the task is dropped and cancelled; a task
\* that has not run yet never runs, a task that has returned is left as it is
unsubscribe ==
    /\ consumer.task \in {"created", "consuming", "returned"}
    /\ consumer' = [consumer EXCEPT !.task = IF @ = "created" THEN "cancelled"
                                             ELSE IF @ = "consuming" THEN "cancelling"
                                             ELSE "dropped"]
    /\ UNCHANGED <<bridgeFrame, storeVars, subscriberVars, sse>>

\* _consume, "except asyncio.CancelledError" and "finally": the queue is
\* removed and the task ends
consume_cancelled ==
    /\ consumer.task = "cancelling"
    /\ _subscribers' = SelectInOrder(_subscribers, Range(_subscribers) \ {consumer.queue})
    /\ consumer' = [consumer EXCEPT !.task = "cancelled"]
    /\ UNCHANGED <<bridgeFrame, storeVars, created_queues, sse>>

\* sse_stream up to its first suspension: the client's queue is registered
sse_connect ==
    /\ sse.task = "none"
    /\ created_queues < MaxSubscribers
    /\ created_queues' = created_queues + 1
    /\ _subscribers' = Append(_subscribers, created_queues + 1)
    /\ sse' = [task |-> "streaming", queue |-> created_queues + 1]
    /\ UNCHANGED <<bridgeFrame, storeVars, consumer>>

\* sse_stream, "finally": the client has gone and the generator is closed
sse_disconnect ==
    /\ sse.task = "streaming"
    /\ _subscribers' = SelectInOrder(_subscribers, Range(_subscribers) \ {sse.queue})
    /\ sse' = [sse EXCEPT !.task = "closed"]
    /\ UNCHANGED <<bridgeFrame, storeVars, created_queues, consumer>>

\* ---------------------------------------------------- the external agent API
\* a store that holds no session yet; the fields of the session are read only
\* while _sessions holds
no_session ==
    /\ _sessions = FALSE
    /\ state = CREATED
    /\ directory = ""
    /\ workdir_managed = FALSE
    /\ disk = {}
    /\ clock = 0
    /\ created_at = 0
    /\ last_activity_at = 0
    /\ ended_at = NoTime
    /\ name = NewSessionName
    /\ runner_session_id = NoRunnerSessionId
    /\ runner_header = ""

\* the session_name of a creation request
ExternalSessionName == <<"D","e","b","u","g">>

\* what may go wrong inside the bridge while it creates the thread
ThreadFailures == BOOLEAN

\* BridgeManager.create_thread: ValueError when no bridge is registered for
\* the platform, else whatever the bridge's create_thread does: the thread
\* info, or the RuntimeError it wraps every failure in
create_thread(requested_platform, fails) ==
    IF ~get_bridge(requested_platform) THEN "ValueError"
    ELSE IF fails THEN "RuntimeError"
    ELSE "thread_info"

\* store.create_session, the agent's metadata, name and platform set on the
\* session, store.update_session
register_external_session(requested_platform) ==
    /\ _sessions' = TRUE
    /\ state' = CREATED
    /\ _seq' = 0
    /\ created_at' = clock
    /\ last_activity_at' = clock
    /\ ended_at' = NoTime
    /\ name' = ExternalSessionName
    /\ runner_session_id' = NoRunnerSessionId
    /\ runner_header' = ""
    /\ directory' = ""
    /\ workdir_managed' = FALSE
    /\ session_platform' = requested_platform
    /\ UNCHANGED <<entered, queues, log, rotated, emitted, subscriberVars, runnerVars,
                   permissionVars, pcVars, ws_connected, replay, disk, clock,
                   _recent_output, sinkVars, bridge_calls, outerVars>>

\* POST /external/sessions: the session is registered, then the thread is
\* created; a ValueError of the manager deletes the session again and gives
\* 400, any other exception leaves the handler as a 500
create_external_session(requested_platform, fails) ==
    /\ ~_sessions
    /\ LET thread == create_thread(requested_platform, fails)
       IN IF thread = "ValueError"
          THEN /\ response' = [op |-> "create_external", code |-> 400]
               /\ UNCHANGED <<sessionVars, storeVars, subscriberVars, runnerVars,
                              permissionVars, pcVars, ws_connected, replay, registryVars,
                              recordVars, sinkVars, agentVars, outerVars>>
          ELSE /\ register_external_session(requested_platform)
               /\ IF thread = "RuntimeError"
                  THEN /\ response' = [op |-> "create_external", code |-> 500]
                       /\ platform_thread_id' = ""
                  ELSE /\ response' = [op |-> "create_external", code |-> 201]
                       /\ platform_thread_id' = "thread_1"

\* agent_websocket, a create_session message: the session is registered, then
\* the thread is created; a ValueError is reported to the agent and the loop
\* goes on, any other exception is reported and closes the socket
agent_websocket_create_session(requested_platform, fails) ==
    /\ ~_sessions
    /\ ws_connected
    /\ LET thread == create_thread(requested_platform, fails)
       IN /\ register_external_session(requested_platform)
          /\ platform_thread_id' = IF thread = "thread_info" THEN "thread_1" ELSE ""
          /\ response' = [op |-> "ws_create_session",
                          code |-> IF thread = "thread_info" THEN 201
                                   ELSE IF thread = "ValueError" THEN 400 ELSE 500]

\* the events an agent posts
AgentEvents ==
    {[type |-> "output", request_id |-> 0],
     [type |-> "status", request_id |-> 0],
     [type |-> "progress", request_id |-> 0]}
    \cup {[type |-> "approval_request", request_id |-> r] : r \in RequestIds}

\* BridgeManager.route_output / route_approval / route_status: the call is
\* dispatched to the bridge of the session's platform, if there is one
route_to_bridge(calls, method, arg) ==
    IF get_bridge(session_platform)
    THEN Append(calls, [method |-> method, arg |-> arg])
    ELSE calls

\* POST /external/sessions/{id}/events
post_agent_event(event) ==
    /\ Len(bridge_calls) < MaxBridgeEvents
    /\ IF ~_sessions
       THEN /\ response' = [op |-> "post_event", code |-> 404]
            /\ UNCHANGED bridge_calls
       ELSE IF session_platform = ""
       THEN /\ response' = [op |-> "post_event", code |-> 400]
            /\ UNCHANGED bridge_calls
       ELSE IF event.type = "output"
       THEN /\ bridge_calls' = route_to_bridge(bridge_calls, "on_output", 0)
            /\ response' = [op |-> "post_event", code |-> 200]
       ELSE IF event.type = "approval_request"
       THEN /\ bridge_calls' = route_to_bridge(bridge_calls, "on_approval_request",
                                               event.request_id)
            /\ response' = [op |-> "post_event", code |-> 200]
       ELSE IF event.type = "status"
       THEN /\ bridge_calls' = route_to_bridge(bridge_calls, "on_status_change", 0)
            /\ response' = [op |-> "post_event", code |-> 200]
       ELSE /\ response' = [op |-> "post_event", code |-> 400]
            /\ UNCHANGED bridge_calls
    /\ UNCHANGED <<sessionVars, storeVars, subscriberVars, runnerVars, permissionVars,
                   pcVars, ws_connected, replay, registryVars, recordVars, sinkVars,
                   session_platform, platform_thread_id, outerVars>>

\* ------------------------------------------------------- the bearer token
\* app.state.agent_token, a text; configured
agent_token == <<"s">>

\* the Authorization header of a request, <<>> when the request has none
AuthorizationHeaders ==
    {<<>>,
     <<"B","e","a","r","e","r"," ","s">>,
     <<"b","e","a","r","e","r"," ","s">>,
     <<"B","e","a","r","e","r"," ","x">>,
     <<"B","e","a","r","e","r"," "," ","s">>,
     <<"B","a","s","i","c"," ","s">>}

\* str.lower
lower(text) ==
    [i \in 1..Len(text) |->
        IF text[i] = "B" THEN "b"
        ELSE IF text[i] = "E" THEN "e"
        ELSE IF text[i] = "A" THEN "a"
        ELSE IF text[i] = "R" THEN "r"
        ELSE text[i]]

\* str.startswith
startswith(text, prefix) ==
    /\ Len(text) >= Len(prefix)
    /\ SubSeq(text, 1, Len(prefix)) = prefix

\* text.split(" ", 1)[1] for a text that holds a blank
split_1(text) ==
    LET first == CHOOSE i \in 1..Len(text) :
                     /\ text[i] = " "
                     /\ \A j \in 1..(i - 1) : text[j] # " "
    IN SubSeq(text, first + 1, Len(text))

\* require_token: TRUE when the request goes on to the handler, FALSE when it
\* is answered 401
require_token(token, auth) ==
    IF token = <<>> THEN TRUE
    ELSE IF auth = <<>> \/ ~startswith(lower(auth), <<"b","e","a","r","e","r"," ">>)
    THEN FALSE
    ELSE split_1(auth) = token

\* raise_http_error("UNAUTHORIZED", ..., 401): the handler is not run
unauthorized ==
    /\ response' = [op |-> "require_token", code |-> 401]
    /\ UNCHANGED <<sessionVars, storeVars, subscriberVars, runnerVars, permissionVars,
                   pcVars, ws_connected, replay, registryVars, recordVars, sinkVars,
                   agentVars, outerVars>>

\* an endpoint declared with Depends(require_token)
Depends_require_token(auth, handler) ==
    IF require_token(agent_token, auth) THEN handler ELSE unauthorized

\* the requests to the session endpoints and to the event stream, each with
\* the Authorization header it carries
session_request(auth) ==
    \/ Depends_require_token(auth, start_session(1, ShortPrompt))
    \/ Depends_require_token(auth, delete_session)
    \/ \E value \in RenameValues : Depends_require_token(auth, rename_session(value))
    \/ Depends_require_token(auth, sse_connect)

\* the requests to the external agent endpoints; their handlers declare no
\* dependency, so the header is not looked at
external_request(auth) ==
    \/ \E requested_platform \in Platforms, fails \in ThreadFailures :
          create_external_session(requested_platform, fails)
    \/ \E event \in AgentEvents : post_agent_event(event)
    \/ \E r \in RequestIds, allow \in BOOLEAN : respond_to_approval(r, allow)

\* -------------------------------------- the Telegram bridge and its timers
\* how long an Allow-All or Allow-tool choice lasts, in seconds
_ALLOW_ALL_DURATION_S == 30 * 60

\* time.time() in seconds; a tick of the clock is a quarter of an hour
SecondsPerTick == 900
time_time == clock * SecondsPerTick

\* the sessions that have a topic in the forum group
TopicSessions == {s \in SessionIds : s[6] = "0"}

\* the option of the button pressed, the part of the callback data after
\* "approval:<request_id>:", split at its colons
ApprovalOptions ==
    {<<"Allow">>, <<"Deny">>, <<"AllowAll">>, <<"AllowTool", "Bash">>}

\* what the Telegram steps leave alone
telegramFrame == <<sessionVars, storeVars, subscriberVars, runnerVars, permissionVars,
                   pcVars, ws_connected, response, replay, registryVars, recordVars,
                   sinkVars, agentVars, threadVars, inputVars, mcp_calls>>

\* TelegramBridge._handle_callback_query for the topic of a session: "Allow
\* All (30m)" and "Allow <tool> (30m)" set the timer before the answer is
\* posted to the session's permission endpoint
_handle_callback_query(session_id, option_selected) ==
    /\ IF option_selected = <<"AllowAll">>
       THEN /\ _allow_all_until' =
                 [_allow_all_until EXCEPT ![session_id] = time_time + _ALLOW_ALL_DURATION_S]
            /\ set_at' = [set_at EXCEPT ![session_id][AllTools] = time_time]
            /\ UNCHANGED _allow_tool_until
       ELSE IF option_selected[1] = "AllowTool"
       THEN /\ _allow_tool_until' =
                 [_allow_tool_until EXCEPT ![session_id][option_selected[2]] =
                                               time_time + _ALLOW_ALL_DURATION_S]
            /\ set_at' = [set_at EXCEPT ![session_id][option_selected[2]] = time_time]
            /\ UNCHANGED _allow_all_until
       ELSE UNCHANGED <<_allow_all_until, _allow_tool_until, set_at>>
    /\ UNCHANGED <<telegramFrame, approval_log>>

\* on_approval_request that looks at the timers of every session
on_approval_request_any_session(session_id, title) ==
    /\ approval_log' =
         [session_id |-> session_id, title |-> title, at |-> time_time,
          outcome |-> IF \E s \in SessionIds : time_time < _allow_all_until[s]
                      THEN "auto_approve"
                      ELSE IF \E s \in SessionIds : time_time < _allow_tool_until[s][title]
                      THEN "auto_approve"
                      ELSE "prompt"]
    /\ UNCHANGED <<telegramFrame, _allow_all_until, _allow_tool_until, set_at>>

\* TelegramBridge.on_approval_request for a started bot and a session that has
\* a topic; the title of the request is the tool's name.  The request is
\* approved silently while a timer runs, else the prompt with its buttons is
\* sent.
on_approval_request(session_id, title) ==
    /\ approval_log' =
         [session_id |-> session_id, title |-> title, at |-> time_time,
          outcome |-> IF time_time < _allow_all_until[session_id]
                      THEN "auto_approve"
                      ELSE IF time_time < _allow_tool_until[session_id][title]
                      THEN "auto_approve"
                      ELSE "prompt"]
    /\ UNCHANGED <<telegramFrame, _allow_all_until, _allow_tool_until, set_at>>

\* ------------------------------------------- the names of threads and topics
\* the longest name a topic or thread is given
_TELEGRAM_TOPIC_NAME_MAX_LEN == 64
_DISCORD_THREAD_NAME_MAX_LEN == 64

\* the directories of the external sessions that are attached: a short one,
\* the same with a trailing slash, none, and one whose last part is as long
\* as a name may be
LongDirectory == <<"/">> \o [i \in 1.._TELEGRAM_TOPIC_NAME_MAX_LEN |-> "x"]
Directories == {<<"/","r","e","p","o">>, <<"/","r","e","p","o","/">>, <<>>, LongDirectory}

\* text[:n]
truncate(text, n) == SubSeq(text, 1, IF Len(text) < n THEN Len(text) ELSE n)

\* text.rstrip("/")
rstrip(text) ==
    LET kept == {n \in 0..Len(text) : \A i \in (n + 1)..Len(text) : text[i] = "/"}
    IN SubSeq(text, 1, CHOOSE n \in kept : \A m \in kept : n <= m)

\* text.rsplit("/", 1)[-1]
rsplit_last(text) ==
    LET slashes == {i \in 1..Len(text) : text[i] = "/"}
    IN IF slashes = {} THEN text
       ELSE SubSeq(text, (CHOOSE i \in slashes : \A j \in slashes : j <= i) + 1, Len(text))

\* str.upper, on the letters the directories begin with
upper(char) == IF char = "r" THEN "R" ELSE IF char = "x" THEN "X" ELSE char

\* str(i) for a number below 100
str(i) ==
    LET digit(d) == <<"0","1","2","3","4","5","6","7","8","9">>[d + 1]
    IN IF i < 10 THEN <<digit(i)>> ELSE <<digit(i \div 10), digit(i % 10)>>

\* TelegramBridge._make_external_topic_name, given the names in the registry
_make_external_topic_name(given_directory, existing_names) ==
    LET stripped == rsplit_last(rstrip(given_directory))
        dir_short == IF stripped = <<>> THEN <<"S","e","s","s","i","o","n">> ELSE stripped
        base_name == truncate(<<upper(dir_short[1])>> \o SubSeq(dir_short, 2, Len(dir_short)),
                              _TELEGRAM_TOPIC_NAME_MAX_LEN)
        candidate(i) == truncate(base_name \o <<" ">> \o str(i), _TELEGRAM_TOPIC_NAME_MAX_LEN)
        unused == {i \in 2..99 : candidate(i) \notin existing_names}
    IN IF base_name \notin existing_names THEN base_name
       ELSE IF unused # {} THEN candidate(CHOOSE i \in unused : \A j \in unused : i <= j)
       ELSE base_name

\* DiscordBridge._make_external_thread_name
_make_external_thread_name(given_directory, session_id) ==
    LET stripped == rsplit_last(rstrip(given_directory))
        dir_short == IF stripped = <<>> THEN <<"s","e","s","s","i","o","n">> ELSE stripped
        raw_id == IF Len(session_id) >= 5 /\ SubSeq(session_id, 1, 5) = <<"s","e","s","s","_">>
                  THEN SubSeq(session_id, 6, Len(session_id))
                  ELSE session_id
        last_six == SubSeq(raw_id, IF Len(raw_id) > 6 THEN Len(raw_id) - 5 ELSE 1, Len(raw_id))
        suffix == IF last_six = <<>> THEN <<"u","n","k","n","o","w","n">> ELSE last_six
        room == _DISCORD_THREAD_NAME_MAX_LEN - (1 + Len(suffix))
        max_dir_len == IF room < 1 THEN 1 ELSE room
        shortened == IF Len(dir_short) <= max_dir_len THEN dir_short
                     ELSE IF max_dir_len <= 3 THEN truncate(dir_short, max_dir_len)
                     ELSE truncate(dir_short, max_dir_len - 3) \o <<".",".",".">>
    IN truncate(shortened \o <<" ">> \o suffix, _DISCORD_THREAD_NAME_MAX_LEN)

\* what attaching a session to a thread leaves alone
threadFrame == <<sessionVars, storeVars, subscriberVars, runnerVars, permissionVars,
                 pcVars, ws_connected, response, replay, registryVars, recordVars,
                 sinkVars, agentVars, telegramVars, inputVars, mcp_calls>>

\* the Telegram bridge attaches an external session: unless the session has a
\* topic already, a name is made, the topic created and registered under it
telegram_attach(session_id, given_directory) ==
    /\ _mappings' =
         IF _mappings[session_id] # <<>> THEN _mappings
         ELSE [_mappings EXCEPT ![session_id] =
                  _make_external_topic_name(given_directory,
                                            {_mappings[s] : s \in SessionIds} \ {<<>>})]
    /\ UNCHANGED <<threadFrame, thread_names>>

\* the Discord bridge attaches an external session
discord_attach(session_id, given_directory) ==
    /\ thread_names' =
         IF thread_names[session_id] # <<>> THEN thread_names
         ELSE [thread_names EXCEPT ![session_id] =
                  _make_external_thread_name(given_directory, session_id)]
    /\ UNCHANGED <<threadFrame, _mappings>>

\* ------------------------------------------------ input handed to the runner
\* the texts handed to the runner: two inputs and one of blanks only
BlankInput == <<" ", " ">>
Inputs == {ShortPrompt, OtherPrompt, BlankInput}

\* text.strip()
strip(text) ==
    LET inner == {i \in 1..Len(text) : text[i] # " "}
    IN IF inner = {} THEN <<>>
       ELSE SubSeq(text, CHOOSE i \in inner : \A j \in inner : i <= j,
                         CHOOSE i \in inner : \A j \in inner : j <= i)

\* ClaudeLocalRunner.send_input: nothing for a blank text; a warning and
\* nothing else while the session's query task is not done; else the stop
\* request is cleared and a query resuming the conversation is started with
\* the text as its prompt
runner_send_input(text) ==
    /\ handed' = handed \cup {text}
    /\ IF strip(text) = <<>> \/ TaskActive(_tasks)
       THEN UNCHANGED <<runnerVars, prompts_sent>>
       ELSE /\ _stop_requested' = FALSE
            /\ _tasks' = "running"
            /\ prompts_sent' = prompts_sent \cup {text}
            /\ UNCHANGED runner_starts
    /\ UNCHANGED <<sessionVars, storeVars, subscriberVars, permissionVars, pcVars,
                   ws_connected, response, replay, registryVars, recordVars, sinkVars,
                   agentVars, telegramVars, threadVars, mcp_calls>>

\* ------------------------------------------------- the store after a restart
\* SessionStore() constructed again over the same database and data directory:
\* every dictionary of the store starts empty, and _load_sessions puts back
\* the sessions of the database and sets the counter of each to 0.  The rows
\* of the database and the files under sessions/<id>/ are as they were left.
reload_store ==
    /\ _seq' = 0
    /\ _subscribers' = <<>>
    /\ _stop_requested' = FALSE
    /\ _recent_output' = <<>>
    /\ pending' = [r \in RequestIds |->
                     [registered |-> FALSE, done |-> FALSE, result |-> NoResult,
                      accepted |-> 0]]
    /\ UNCHANGED <<sessionVars, queues, created_queues, log, rotated, emitted, _tasks,
                   runner_starts, requested, pcVars, ws_connected, response, replay,
                   registryVars, name, runner_session_id, runner_header, sinkVars,
                   agentVars, outerVars>>

\* ------------------------------------------------------------ the MCP tools
\* the names execute_tool is called with: the four tools and one it does not know
ToolNames == {"create_session", "send_output", "request_approval", "check_input",
              "delete_session"}

\* f"mcp_{arguments['session_id'][:8]}"
mcp_request_id(session_id) == <<"m","c","p","_">> \o truncate(session_id, 8)

\* the request a tool sends to the external-agent API
tool_request(tool_name, session_id, title) ==
    IF tool_name = "create_session"
    THEN [tool |-> tool_name, session_id |-> <<>>, type |-> "", request_id |-> <<>>,
          title |-> ""]
    ELSE IF tool_name = "send_output"
    THEN [tool |-> tool_name, session_id |-> session_id, type |-> "output",
          request_id |-> <<>>, title |-> ""]
    ELSE IF tool_name = "request_approval"
    THEN [tool |-> tool_name, session_id |-> session_id, type |-> "approval_request",
          request_id |-> mcp_request_id(session_id), title |-> title]
    ELSE [tool |-> tool_name, session_id |-> session_id, type |-> "", request_id |-> <<>>,
          title |-> ""]

\* execute_tool: one request is sent for a tool that is known, ValueError is
\* raised for another name
execute_tool(tool_name, session_id, title) ==
    /\ Len(mcp_calls) < MaxToolCalls
    /\ mcp_calls' =
         IF tool_name \in {"create_session", "send_output", "request_approval", "check_input"}
         THEN Append(mcp_calls, tool_request(tool_name, session_id, title))
         ELSE mcp_calls
    /\ UNCHANGED <<sessionVars, storeVars, subscriberVars, runnerVars, permissionVars,
                   pcVars, ws_connected, response, replay, registryVars, recordVars,
                   sinkVars, agentVars, telegramVars, threadVars, inputVars>>

\* ----------------------------------------------------- the specifications
\* Subscriber queues and log readers only observe: no handler, callback or
\* task reads a queue or the result of a replay.  The session's life is
\* therefore followed without them (Spec), and they are followed next to the
\* emitters that feed them (FanoutSpec, ReplaySpec).

\* the session API, maintenance, the runner task, permissions, the agent socket
Next ==
    \/ \E approval_choice \in ApprovalChoices : start_session(approval_choice, ShortPrompt)
    \/ send_input(OtherPrompt)
    \/ \E c \in Clients : stop_session(c)
    \/ \E c \in Clients : stop_session_resume(c)
    \/ maintenance_loop
    \/ maintenance_resume
    \/ runner_output
    \/ \E raised \in BOOLEAN : runner_error(raised)
    \/ runner_query_done
    \/ runner_final_heartbeat
    \/ runner_signal
    \/ wait_for_timeout
    \/ runner_permission_request
    \/ \E r \in RequestIds, allow \in BOOLEAN : respond_to_approval(r, allow)
    \/ \E r \in RequestIds : permission_timeout(r)
    \/ agent_websocket_disconnect

Spec == Init /\ [][Next]_vars

\* the timer of a pending permission runs on the event loop and fires
FairSpec == Spec /\ \A r \in RequestIds : WF_vars(permission_timeout(r))

\* emitters of several kinds (a handler, runner callbacks, an approval
\* response) next to subscribers that come and go
FanoutNext ==
    \/ \E approval_choice \in {1} : start_session(approval_choice, ShortPrompt)
    \/ runner_output
    \/ runner_permission_request
    \/ \E r \in RequestIds : respond_to_approval(r, TRUE)
    \/ new_subscriber
    \/ \E q \in Queues : remove_subscriber(q)

FanoutSpec == Init /\ [][FanoutNext]_vars

\* emitters that fill and rotate the log next to readers of the log
ReplayNext ==
    \/ \E approval_choice \in {1} : start_session(approval_choice, ShortPrompt)
    \/ runner_output
    \/ \E raised \in BOOLEAN : runner_error(raised)
    \/ agent_websocket_disconnect
    \/ \E n \in 0..MaxReads : get_pending_events(n)

ReplaySpec == Init /\ [][ReplayNext]_vars

\* a session created with or without a directory of its own, followed through
\* its life while time passes, next to deletion and the maintenance loop
MaintenanceInit == store_created /\ \E given \in {"", GivenDirectory} : create_session(given)

MaintenanceNext ==
    \/ tick
    \/ \E approval_choice \in {1} : start_session(approval_choice, ShortPrompt)
    \/ send_input(OtherPrompt)
    \/ \E c \in {"c1"} : stop_session(c)
    \/ \E c \in {"c1"} : stop_session_resume(c)
    \/ \E r \in RetentionDays, i \in IdleTimeouts : maintenance_pass(r, i)
    \/ maintenance_resume
    \/ runner_output
    \/ \E raised \in BOOLEAN : runner_error(raised)
    \/ runner_query_done
    \/ runner_final_heartbeat
    \/ runner_signal
    \/ wait_for_timeout
    \/ delete_session

MaintenanceSpec == MaintenanceInit /\ [][MaintenanceNext]_vars

\* The callback sink driven by any runner, on a session loaded in any state;
\* the session may be started and deleted in between.
CallbackInit == store_created /\ \E loaded_state \in SessionState : _load_sessions(loaded_state)

CallbackNext ==
    \/ \E approval_choice \in {1} : start_session(approval_choice, ShortPrompt)
    \/ delete_session
    \/ \E exit_code \in ExitCodes : call_on_exit(exit_code)
    \/ call_on_error
    \/ call_on_awaiting_input
    \/ \E thread_id \in ThreadIds : call_on_header(thread_id)

CallbackSpec == CallbackInit /\ [][CallbackNext]_vars

\* The output texts of one session offered to should_emit_output one after
\* the other; the k-th line is not offered before k - 1 texts were let through.
DedupNext ==
    \/ \E k \in 1..MaxAccepted :
          /\ k <= Len(accepted) + 1
          /\ \E text \in OutputTexts(k) : call_should_emit_output(text)
    \/ \E text \in EmptyTexts : call_should_emit_output(text)

DedupSpec == Init /\ [][DedupNext]_vars

\* Prompts, inputs and rename requests of every kind, while the runner works
\* through its turns.
NameNext ==
    \/ \E prompt \in Prompts : start_session(1, prompt)
    \/ \E text \in Prompts \ {<<>>} : send_input(text)
    \/ \E value \in RenameValues : rename_session(value)
    \/ runner_output
    \/ runner_query_done
    \/ runner_final_heartbeat
    \/ runner_signal

NameSpec == Init /\ [][NameNext]_vars

\* The consumer task of a session bound to a platform that has a bridge; the
\* session's events are of every kind the subscriber tells apart, and the
\* bridge may fail a call.
BridgeNext ==
    \/ \E event \in BridgeEvents : store_emit(event)
    \/ \E platform \in {"telegram"} : subscribe(platform)
    \/ consume_start
    \/ \E raises \in BOOLEAN : consume_event(raises)
    \/ unsubscribe
    \/ consume_cancelled

BridgeSpec == Init /\ [][BridgeNext]_vars

\* The subscribers of a session come and go: an SSE client, and the consumer
\* task of a platform with or without a bridge.
SubscriberEvents == {e \in BridgeEvents : e.data.text = "Hello world" \/ e.type = "error"}

SubscriberNext ==
    \/ \E event \in SubscriberEvents : store_emit(event)
    \/ \E platform \in Platforms : subscribe(platform)
    \/ consume_start
    \/ \E raises \in {FALSE} : consume_event(raises)
    \/ unsubscribe
    \/ consume_cancelled
    \/ sse_connect
    \/ sse_disconnect

SubscriberSpec == Init /\ [][SubscriberNext]_vars

\* A session with a consumer task is deleted: the DELETE handler next to the
\* bridge subscriber of a platform that has a bridge.
RemovalNext ==
    \/ \E event \in SubscriberEvents : store_emit(event)
    \/ \E platform \in {"telegram"} : subscribe(platform)
    \/ consume_start
    \/ \E raises \in {FALSE} : consume_event(raises)
    \/ unsubscribe
    \/ consume_cancelled
    \/ delete_session

RemovalSpec == Init /\ [][RemovalNext]_vars

\* An external agent creates its session over REST or over its WebSocket, on a
\* platform with or without a bridge and with a bridge that may fail; it posts
\* events and polls for events, and approvals are answered.
AgentInit == store_created /\ no_session

AgentNext ==
    \/ \E requested_platform \in Platforms, fails \in ThreadFailures :
          create_external_session(requested_platform, fails)
    \/ \E requested_platform \in Platforms, fails \in ThreadFailures :
          agent_websocket_create_session(requested_platform, fails)
    \/ \E event \in AgentEvents : post_agent_event(event)
    \/ \E r \in RequestIds, allow \in BOOLEAN : respond_to_approval(r, allow)
    \/ \E since_seq \in 0..1 : get_pending_events(since_seq)
    \/ tick

AgentSpec == AgentInit /\ [][AgentNext]_vars

\* Clients with and without the configured token call the session endpoints,
\* the event stream and the external agent endpoints; the SSE client may go.
AuthNext ==
    \/ \E auth \in AuthorizationHeaders : session_request(auth)
    \/ \E auth \in AuthorizationHeaders : external_request(auth)
    \/ sse_disconnect

AuthSpec == Init /\ [][AuthNext]_vars

\* The Telegram bridge of two sessions: buttons are pressed, approval requests
\* come in, time passes.
TimerNext ==
    \/ \E session_id \in TopicSessions, option_selected \in ApprovalOptions :
          _handle_callback_query(session_id, option_selected)
    \/ \E session_id \in TopicSessions, title \in Tools :
          on_approval_request(session_id, title)
    \/ tick

TimerSpec == Init /\ [][TimerNext]_vars

\* External sessions are attached to Telegram topics and to Discord threads.
ThreadNext ==
    \/ \E session_id \in SessionIds, given_directory \in Directories :
          telegram_attach(session_id, given_directory)
    \/ \E session_id \in SessionIds, given_directory \in Directories :
          discord_attach(session_id, given_directory)

ThreadSpec == Init /\ [][ThreadNext]_vars

\* Texts are handed to the runner of a started session while its query task
\* works through its turns.
RunnerInputNext ==
    \/ start_session(1, ShortPrompt)
    \/ \E text \in Inputs : runner_send_input(text)
    \/ runner_output
    \/ runner_query_done
    \/ runner_final_heartbeat
    \/ runner_signal

RunnerInputSpec == Init /\ [][RunnerInputNext]_vars

\* the query task is scheduled until it is done
RunnerInputFairSpec ==
    RunnerInputSpec /\ WF_vars(runner_query_done) /\ WF_vars(runner_final_heartbeat)
                    /\ WF_vars(runner_signal)

\* Events are emitted and the log is read while the store may be constructed
\* again over the same data, as it is when the process is restarted.
ReloadNext ==
    \/ \E event \in SubscriberEvents : store_emit(event)
    \/ reload_store
    \/ \E since_seq \in 0..MaxReads : get_pending_events(since_seq)

ReloadSpec == Init /\ [][ReloadNext]_vars

\* An agent calls the MCP tools, for any of the sessions and with any title.
McpNext ==
    \E tool_name \in ToolNames, session_id \in SessionIds, title \in Tools :
        execute_tool(tool_name, session_id, title)

McpSpec == Init /\ [][McpNext]_vars

\* ------------------------------------------------------------ the claims
EventTypes(events) == {events[i].type : i \in 1..Len(events)}

C2_SameOrder ==
    \A q1, q2 \in Queues :
        /\ \A i \in 1..(Len(queues[q1]) - 1) : queues[q1][i + 1].seq = queues[q1][i].seq + 1
        /\ SelectInOrder(queues[q1], Range(queues[q2]))
             = SelectInOrder(queues[q2], Range(queues[q1]))

\* two subscribers have at least two events in common, and one of them has
\* seen an event that the other has not
C2_Witness ==
    \E q1, q2 \in Queues :
        /\ Cardinality(Range(queues[q1]) \cap Range(queues[q2])) >= 2
        /\ queues[q1] # queues[q2]

\* the events of one type among events
EventsOfType(events, type) == {i \in 1..Len(events) : events[i].type = type}

\* C3: for every request at most one resolve call returns true, whoever the
\* resolvers are (approval responses, the timeout); once the request is resolved
\* the result delivered to the runner stays what the first resolver set, and a
\* losing approval response emits nothing: there are exactly as many
\* approval_response events as requests resolved by an approval response.
C3_FirstResolverWins ==
    /\ [](\A r \in RequestIds : pending[r].accepted <= 1)
    /\ [](Cardinality(EventsOfType(emitted, "approval_response"))
            = Cardinality({r \in RequestIds : pending[r].done
                                              /\ pending[r].result.reason = "user"}))
    /\ [][\A r \in RequestIds : pending[r].done => pending'[r] = pending[r]]_vars

\* an approval response won, and a later one for the same request got 404
C3_Witness ==
    \E r \in RequestIds :
        /\ pending[r].done
        /\ pending[r].result.reason = "user"
        /\ response = [op |-> "respond", code |-> 404]

PermittedTransitions ==
    {<<"CREATED", "RUNNING">>,
     <<"RUNNING", "AWAITING_INPUT">>, <<"AWAITING_INPUT", "RUNNING">>,
     <<"RUNNING", "INTERRUPTING">>, <<"INTERRUPTING", "STOPPED">>,
     <<"RUNNING", "STOPPING">>, <<"STOPPING", "STOPPED">>,
     <<"CREATED", "ERROR">>, <<"RUNNING", "ERROR">>, <<"AWAITING_INPUT", "ERROR">>,
     <<"INTERRUPTING", "ERROR">>, <<"STOPPING", "ERROR">>}

\* C5: every state the session is moved into is reached from the state before
\* it along a permitted transition, the stored state is the last state moved
\* into, and a stop request that is answered 409 (its transition was rejected)
\* leaves the state as it was.
C5_TransitionLegality ==
    /\ [](\A i \in 1..Len(entered) :
            <<IF i = 1 THEN "CREATED" ELSE entered[i - 1], entered[i]>>
                \in PermittedTransitions)
    /\ [](state = IF entered = <<>> THEN "CREATED" ELSE entered[Len(entered)])
    /\ [][\A c \in Clients :
            /\ (stop_session(c) /\ stop_pc'[c] = "idle" /\ response'.code = 409)
                   => state' = state
            /\ (stop_session_resume(c) /\ response'.code = 409) => state' = state]_vars

\* a stop request for a session that awaits input was rejected: the move from
\* AWAITING_INPUT to STOPPED is not a permitted one
C5_Witness ==
    /\ state = AWAITING_INPUT
    /\ response = [op |-> "stop", code |-> 409]

\* C6: a session that is STOPPED or ERROR stays in that state, whatever stop
\* requests, idle evictions and runner callbacks come afterwards.
C6_TerminalIsFinal == [][(state \in Terminal) => (state' = state)]_vars

\* the runner failed while a stop or an eviction was waiting for it, and the
\* waiter has run to its end over the session in ERROR
C6_Witness ==
    /\ state = ERROR
    /\ STOPPING \in Range(entered)
    /\ maint_pc = "idle"
    /\ \A c \in Clients : stop_pc[c] = "idle"
    /\ _tasks = "none"

\* the events of a log whose seq is greater than n, in log order
RECURSIVE EventsAfter(_, _)
EventsAfter(lines, n) ==
    IF lines = <<>> THEN <<>>
    ELSE IF Head(lines).seq > n
         THEN <<Head(lines)>> \o EventsAfter(Tail(lines), n)
         ELSE EventsAfter(Tail(lines), n)

\* C7: read_event_log(s, since_seq = n) returns exactly the logged events of the
\* session whose seq is greater than n, in log order; the logged events are
\* those of events.jsonl.1 followed by those of events.jsonl.
C7_ExactlyTheEventsAfter ==
    replay.events = EventsAfter(replay.rotated \o replay.lines, replay.since_seq)

\* what read_event_log does return: the events after n of the one file it
\* opens, events.jsonl
ReadsCurrentFileOnly ==
    replay.events = EventsAfter(replay.lines, replay.since_seq)

\* C8: once the log has rotated, read_event_log(s, since_seq = 0) returns every
\* event of events.jsonl.1 and of events.jsonl, in sequence order.
C8_ReadsBothGenerations ==
    (replay.rotated # <<>> /\ replay.since_seq = 0)
        => replay.events = replay.rotated \o replay.lines

\* the data of the session_state events among events, in order
RECURSIVE StateTimeline(_)
StateTimeline(events) ==
    IF events = <<>> THEN <<>>
    ELSE IF Head(events).type = "session_state"
         THEN <<Head(events).data>> \o StateTimeline(Tail(events))
         ELSE StateTimeline(Tail(events))

\* C9: the session_state events, in sequence order, report exactly the states
\* the session has been moved into, in that order, and the stored state is the
\* one the latest of them reports: no event runs ahead of the stored state and
\* no move goes unreported.
C9_StateTimeline ==
    /\ StateTimeline(emitted) = entered
    /\ StateTimeline(emitted) # <<>>
          => state = StateTimeline(emitted)[Len(StateTimeline(emitted))]

\* the session has been moved three times and other events lie in between
C9_Witness ==
    /\ Len(StateTimeline(emitted)) >= 3
    /\ Len(emitted) > Len(StateTimeline(emitted))

\* C10: a start request for a session that is not CREATED is answered 409 and
\* changes nothing, the runner included; the runner is started only by a start
\* request that finds the session CREATED, hence at most once.
C10_StartOnlyFromCreated ==
    /\ [](runner_starts <= 1)
    /\ [][\A a \in ApprovalChoices :
            (start_session(a, ShortPrompt) /\ state # CREATED)
                => /\ response' = [op |-> "start", code |-> 409]
                   /\ UNCHANGED <<sessionVars, storeVars, runnerVars, permissionVars,
                                  subscriberVars, pcVars, ws_connected>>]_vars
    /\ [][(runner_starts' # runner_starts)
            => (state = CREATED /\ response' = [op |-> "start", code |-> 200])]_vars

\* the runner was started and a second start request was turned away while the
\* session was running
C10_Witness ==
    /\ runner_starts = 1
    /\ state = RUNNING
    /\ response = [op |-> "start", code |-> 409]

C12_InputResumesAwaiting ==
    [][(send_input(OtherPrompt) /\ _sessions /\ state = AWAITING_INPUT) =>
          /\ response' = [op |-> "input", code |-> 200]
          /\ _tasks' = "running"
          /\ state' = RUNNING]_vars

\* C14: a stop request that has waited for the runner ends the session in a
\* terminal state that tells how the runner's stop went: STOPPED when the stop
\* returned in time, ERROR when it exceeded its timeout.
C14_StopOutcome ==
    [][\A c \in Clients :
          (stop_session_resume(c) /\ _sessions /\ state \in {STOPPING, INTERRUPTING}) =>
              state' = IF _tasks = "timed_out" THEN ERROR ELSE STOPPED]_vars

\* C15: a stop request for a session that is STOPPED or ERROR is answered 200
\* with the session as it is: the state, the timestamps, the events, the
\* runner's task and stop flag and every pending request stay as they were,
\* each time the request is made.
C15_StopOnTerminalChangesNothing ==
    [][\A c \in Clients :
          (stop_session(c) /\ _sessions /\ state \in Terminal) =>
              /\ response' = [op |-> "stop", code |-> 200]
              /\ UNCHANGED <<sessionVars, storeVars, runnerVars, pcVars,
                             subscriberVars, permissionVars>>]_vars

\* a stop was answered for a session in ERROR whose query task is still there
C15_Witness ==
    /\ response = [op |-> "stop", code |-> 200]
    /\ state = ERROR
    /\ _tasks = "running"

\* C16: a delete request for a session that is RUNNING or STOPPING is answered
\* 409 and leaves the session registered, with its state, events, directory,
\* runner task and subscribers as they were; in every other state the request
\* removes the session from the registry.
C16_DeleteGuard ==
    [][(delete_session /\ _sessions) =>
          IF state \in {RUNNING, STOPPING}
          THEN /\ response' = [op |-> "delete", code |-> 409]
               /\ UNCHANGED <<_sessions, sessionVars, storeVars, workdirVars, disk,
                              runnerVars, subscriberVars>>
          ELSE /\ response' = [op |-> "delete", code |-> 200]
               /\ ~_sessions']_vars

\* a session whose turn had ended was deleted
C16_Witness ==
    /\ ~_sessions
    /\ state = AWAITING_INPUT
    /\ response = [op |-> "delete", code |-> 200]

\* C17: once the session has been deleted, by a delete request or by pruning,
\* its event log is gone: read_event_log returns no events for it.
C17_LogGoneAfterDelete ==
    ~_sessions => (read_event_log(log, 0, 0) = <<>> /\ rotated = <<>>)

\* C18: when a session is deleted its working directory is removed from disk
\* if and only if it is tagged managed; a directory that is not managed is
\* never removed.
C18_ManagedWorkdirRemoved ==
    /\ [][(_sessions /\ ~_sessions') =>
              IF workdir_managed /\ directory # ""
              THEN disk' = disk \ {directory}
              ELSE disk' = disk]_vars
    /\ [][(GivenDirectory \in disk) => (GivenDirectory \in disk')]_vars

\* session.ended_at or session.last_activity_at or session.created_at
ReferenceTime ==
    IF ended_at # NoTime THEN ended_at
    ELSE IF last_activity_at # NoTime THEN last_activity_at
    ELSE created_at

\* C19: a maintenance pass with retention r > 0 removes a registered session if
\* and only if the session is STOPPED or ERROR and its reference time is older
\* than now - r; a session in a non-terminal state is never pruned.
C19_PruneOnlyTerminalAndOld ==
    [][\A r \in RetentionDays, i \in IdleTimeouts :
          (maintenance_pass(r, i) /\ _sessions) =>
              (~_sessions' <=> (r > 0 /\ state \in Terminal /\ ReferenceTime < clock - r))]_vars

MovedToError ==
    /\ state' = ERROR
    /\ emitted' = Append(emitted, [seq |-> _seq + 1, type |-> "session_state", data |-> ERROR])

C23_OnAwaitingInput ==
    [][(call_on_awaiting_input /\ _sessions) =>
          IF state = RUNNING
          THEN /\ state' = AWAITING_INPUT
               /\ emitted' = Append(emitted, [seq |-> _seq + 1, type |-> "session_state",
                                              data |-> AWAITING_INPUT])
          ELSE UNCHANGED <<sessionVars, storeVars>>]_vars

\* the callback moved the session to AWAITING_INPUT and was then called again
C23_Witness ==
    /\ called = [op |-> "on_awaiting_input", before |-> AWAITING_INPUT]
    /\ state = AWAITING_INPUT
    /\ entered # <<>>
    /\ entered[Len(entered)] = AWAITING_INPUT
    /\ Len(StateTimeline(emitted)) = Len(entered)

\* C24: a runner session id that is set keeps its value until a start request
\* clears it: on_header stores thread_id only when no id is set and thread_id
\* is given and is not "unknown", and no other step replaces a set id.
C24_RunnerSessionIdKept ==
    /\ [][\A thread_id \in ThreadIds :
            (call_on_header(thread_id) /\ _sessions) =>
                runner_session_id' =
                    IF runner_session_id = NoRunnerSessionId
                       /\ thread_id \notin {"", "unknown"}
                    THEN thread_id
                    ELSE runner_session_id]_vars
    /\ [][(runner_session_id # NoRunnerSessionId
           /\ runner_session_id' # runner_session_id)
            => /\ state = CREATED
               /\ response' = [op |-> "start", code |-> 200]
               /\ runner_session_id' = NoRunnerSessionId]_vars

\* the runner reported a second thread id after the first was stored, and the
\* first is still the session's
C24_Witness ==
    /\ called = [op |-> "on_header", thread_id |-> "new_thread", before |-> RUNNING]
    /\ runner_session_id = "thread_abc123"
    /\ runner_header # ""

\* the last n entries of a sequence
LastEntries(s, n) == SubSeq(s, IF Len(s) > n THEN Len(s) - n + 1 ELSE 1, Len(s))

\* C25: should_emit_output(text) returns true exactly when the normalized text
\* is non-empty and differs from each of the last ten normalized texts for
\* which it returned true.
C25_EmitUnlessRecent ==
    [][\A k \in 1..MaxAccepted : \A text \in OutputTexts(k) \cup EmptyTexts :
          call_should_emit_output(text) =>
              (called'.returned <=>
                  /\ _normalize_output(text) # <<>>
                  /\ _normalize_output(text)
                        \notin Range(LastEntries(accepted, recent_limit)))]_vars

\* line 1 was let through, repeated lines were held back, ten other lines
\* followed, and line 1, offered in colour, was let through again
C25_Witness ==
    /\ Len(accepted) = recent_limit + 2
    /\ accepted[1] = Line(1)
    /\ accepted[recent_limit + 2] = Line(1)
    /\ called = [op |-> "should_emit_output", text |-> Coloured(1), returned |-> TRUE]
    /\ Len(_recent_output) = recent_limit

\* the first n characters of a text
FirstCharacters(text, n) == [i \in 1..(IF Len(text) < n THEN Len(text) ELSE n) |-> text[i]]

\* C26: a session that still carries the name it was created with is named
\* after the first name_limit characters of the first non-empty prompt or
\* input it accepts; once it has a name, no prompt and no input changes it.
C26_NameFromFirstPrompt ==
    /\ [][\A prompt \in Prompts :
            start_session(1, prompt) =>
                name' = IF state = CREATED /\ name = NewSessionName /\ prompt # <<>>
                        THEN FirstCharacters(prompt, name_limit)
                        ELSE name]_vars
    /\ [][\A text \in Prompts \ {<<>>} :
            send_input(text) =>
                name' = IF state = RUNNING /\ name = NewSessionName
                        THEN FirstCharacters(text, name_limit)
                        ELSE name]_vars
    /\ [][(name # NewSessionName /\ name' # name) => response'.op = "rename"]_vars

\* the session carries the first name_limit characters of a prompt or input
\* that was longer, and an input has been accepted since it was started
C26_Witness ==
    /\ Len(name) = name_limit
    /\ name = FirstCharacters(LongPrompt, name_limit)
    /\ state = RUNNING
    /\ response = [op |-> "input", code |-> 200]
    /\ _tasks = "running"
    /\ runner_starts = 1
    /\ Len(entered) = 1

\* the event the consumer task takes next, and the bridge calls a step adds
NextEvent == queues[consumer.queue][consumer.taken + 1]
NewCalls == SubSeq(consumer'.calls, Len(consumer.calls) + 1, Len(consumer'.calls))

\* C27: the subscriber calls on_output exactly once for an output event that
\* has a non-empty text, final = true and is no history event, and makes no
\* bridge call for an output event with final = false, for an output_final
\* event, and for a history event.
C27_FinalOutputOnly ==
    [][\A raises \in BOOLEAN :
          consume_event(raises) =>
              IF /\ NextEvent.type = "output"
                 /\ NextEvent.data.text # ""
                 /\ NextEvent.data.final
                 /\ ~NextEvent.data.is_history
              THEN NewCalls = <<[method |-> "on_output", arg |-> NextEvent.data.text,
                                 raised |-> raises]>>
              ELSE (NextEvent.type \in {"output", "output_final"}
                    \/ NextEvent.data.is_history) => NewCalls = <<>>]_vars

\* C28: for a session_state event the subscriber calls on_typing and no
\* on_status_change when the state is RUNNING, on_status_change("error") when
\* it is ERROR, and no bridge method when it is AWAITING_INPUT.
C28_StateRouting ==
    [][\A raises \in BOOLEAN :
          (consume_event(raises) /\ NextEvent.type = "session_state"
                                 /\ ~NextEvent.data.is_history) =>
              IF NextEvent.data.state = RUNNING
              THEN NewCalls = <<[method |-> "on_typing", arg |-> "", raised |-> raises]>>
              ELSE IF NextEvent.data.state = ERROR
              THEN NewCalls = <<[method |-> "on_status_change", arg |-> "error",
                                 raised |-> raises]>>
              ELSE NextEvent.data.state = AWAITING_INPUT => NewCalls = <<>>]_vars

\* the bridge calls the events of a queue are turned into, in order
RECURSIVE Routed(_)
Routed(events) ==
    IF events = <<>> THEN <<>>
    ELSE IF route(Head(events)) = NoBridgeCall THEN Routed(Tail(events))
    ELSE <<route(Head(events))>> \o Routed(Tail(events))

\* C29: a bridge call that raises does not end the consumer task: the task
\* goes on consuming with its queue registered, the session is left as it is,
\* and the calls made, failed ones included, are those of the events taken so
\* far, in the events' order.
C29_SubscriberSurvivesBridgeFailure ==
    /\ [][(consume_event(TRUE))
            => /\ consumer'.task = "consuming"
               /\ consumer.queue \in Range(_subscribers')
               /\ UNCHANGED <<sessionVars, storeVars>>]_vars
    /\ [](consumer.task = "consuming" =>
            [i \in 1..Len(consumer.calls) |->
                [method |-> consumer.calls[i].method, arg |-> consumer.calls[i].arg]]
            = Routed(SubSeq(queues[consumer.queue], 1, consumer.taken)))

\* a bridge call raised, and the event after it was routed to the bridge
C29_Witness ==
    /\ consumer.task = "consuming"
    /\ Len(consumer.calls) = 2
    /\ consumer.calls[1].raised
    /\ ~consumer.calls[2].raised
    /\ consumer.taken = 2

\* the queue belongs to a subscriber that has ended
SubscriberEnded(queue) ==
    \/ sse.task = "closed" /\ sse.queue = queue
    \/ consumer.task \in {"returned", "dropped", "cancelled"} /\ consumer.queue = queue

\* C30: when a subscriber has ended (the SSE client has gone, the consumer
\* task was cancelled, or it returned because no bridge serves the platform)
\* its queue is not in the subscriber list and is put no further event.
C30_EndedSubscriberRemoved ==
    /\ [](\A queue \in Queues : SubscriberEnded(queue) => queue \notin Range(_subscribers))
    /\ [][\A queue \in Queues : SubscriberEnded(queue) => queues'[queue] = queues[queue]]_vars

\* C31: once the session is deleted its consumer task is cancelled (or was
\* never started), and no queue of the task is in the subscriber list.
C31_DeleteCancelsSubscriber ==
    ~_sessions =>
        /\ consumer.task \notin {"created", "consuming"}
        /\ consumer.queue \notin Range(_subscribers)

\* the agent has posted an approval request with this request id
Posted(r) ==
    \E i \in 1..Len(bridge_calls) :
        bridge_calls[i] = [method |-> "on_approval_request", arg |-> r]

\* C32: an approval request the agent has posted is a pending permission of
\* the session, and a respond call for it, none having succeeded before, is
\* answered 200 and adds exactly one approval_response event.
C32_PostedApprovalIsPending ==
    /\ [](\A r \in RequestIds : (_sessions /\ Posted(r)) => pending[r].registered)
    /\ [][\A r \in RequestIds, allow \in BOOLEAN :
            (respond_to_approval(r, allow) /\ _sessions /\ Posted(r) /\ ~pending[r].done)
            => /\ response' = [op |-> "respond", code |-> 200]
               /\ Cardinality(EventsOfType(emitted', "approval_response"))
                    = Cardinality(EventsOfType(emitted, "approval_response")) + 1]_vars

\* C39: when the last request was the creation of an external session, over
\* REST or over the agent WebSocket, and its thread creation failed, the store
\* holds no session.
C39_NoSessionLeftBehind ==
    (/\ response.op \in {"create_external", "ws_create_session"}
     /\ response.code # 201)
    => ~_sessions

\* the header names the Bearer scheme, in either case, and the configured token
MatchingBearer(auth) ==
    auth \in {<<"B","e","a","r","e","r"," ","s">>, <<"b","e","a","r","e","r"," ","s">>}

\* C33: with a token configured, a request to a session endpoint, to the event
\* stream or to an external agent endpoint whose Authorization header is not
\* a matching Bearer header is answered 401 and changes nothing else.
C33_TokenRequiredEverywhere ==
    [][\A auth \in AuthorizationHeaders :
          (/\ agent_token # <<>>
           /\ ~MatchingBearer(auth)
           /\ session_request(auth) \/ external_request(auth))
          => /\ response'.code = 401
             /\ UNCHANGED <<sessionVars, storeVars, subscriberVars, runnerVars,
                            permissionVars, pcVars, ws_connected, replay, registryVars,
                            recordVars, sinkVars, agentVars, outerVars>>]_vars

\* the timer of the session was set before the moment at, less than thirty
\* minutes before it
UnexpiredAt(session_id, timer, at) ==
    /\ set_at[session_id][timer] # NoTime
    /\ set_at[session_id][timer] <= at
    /\ at - set_at[session_id][timer] < 30 * 60

C35_ThreadNamesDistinct ==
    \A s1 \in SessionIds : \A s2 \in SessionIds \ {s1} :
        /\ (_mappings[s1] # <<>> /\ _mappings[s2] # <<>>) => _mappings[s1] # _mappings[s2]
        /\ (thread_names[s1] # <<>> /\ thread_names[s2] # <<>>)
              => thread_names[s1] # thread_names[s2]

\* C36: every text other than blanks that is handed to the runner's
\* send_input reaches the agent as the prompt of a turn; none is discarded
C36_InputReachesAgent ==
    \A text \in {t \in Inputs : strip(t) # <<>>} :
        (text \in handed) ~> (text \in prompts_sent)

\* C37: a start request answered 422 because approval_choice is neither 1 nor
\* 2 leaves the session CREATED, emits no session_state event and creates no
\* working directory
C37_RejectedStartChangesNothing ==
    [][\A approval_choice \in ApprovalChoices \ {1, 2} :
          (start_session(approval_choice, ShortPrompt)
             /\ response' = [op |-> "start", code |-> 422])
          => /\ state' = CREATED
             /\ StateTimeline(emitted') = StateTimeline(emitted)
             /\ UNCHANGED workdirVars]_vars

\* C38: also after the store was constructed again from its database, the
\* sequence number given to the next event is greater than every seq stored
\* in the session's event log
C38_NextSeqAboveLog ==
    [][\A event \in SubscriberEvents :
          store_emit(event)
          => \A line \in Range(log) \cup Range(rotated) :
                emitted'[Len(emitted')].seq > line.seq]_vars

\* C40: two approval requests issued through the request_approval tool carry
\* distinct request ids
C40_RequestIdsDistinct ==
    \A i \in 1..Len(mcp_calls) : \A j \in 1..Len(mcp_calls) :
        (i # j /\ mcp_calls[i].tool = "request_approval"
               /\ mcp_calls[j].tool = "request_approval")
        => mcp_calls[i].request_id # mcp_calls[j].request_id

====
